---- MODULE Spec2Model ----
(***************************************************************************)
(* The Secure Digital Key & Asset Checkout server: the two-step login      *)
(* (password, then e-mailed one-time code) of routes/auth.routes.ts and    *)
(* services/otp.service.ts, the middleware of auth.middleware.ts and       *)
(* rbac.middleware.ts, the handlers of user.routes.ts and                  *)
(* checkout.routes.ts, and the encryption and signature services.  Node    *)
(* runs every handler on one thread, so a handler is atomic between two    *)
(* awaits; each action below is one such synchronous segment.  Time is     *)
(* counted in minutes.                                                     *)
(***************************************************************************)
EXTENDS Integers, Sequences, FiniteSets, Bags, TLC

\* ---------------------------------------------------------------- bounds
MaxTime == 15          \* the clock stops here
MaxSessions == 2       \* successful password checks (session ids handed out)
MaxInflight == 1       \* handlers suspended at an await at the same time
MaxRecords == 1        \* checkout records created
MaxWorkflowRecords == 2  \* ... where the checkout workflow is followed
MaxRacing == 2         \* handlers suspended at once where requests race

\* ------------------------------------------------------ program constants
OTP_EXPIRY_MINUTES == 5
MAX_ATTEMPTS == 3
SESSION_EXPIRY_MINUTES == 10
SWEEP_INTERVAL_MINUTES == 5
DEFAULT_LOAN_MINUTES == 10080

\* the clock is read at the granularity of the sweep interval, of which both
\* time-to-live values are multiples: every comparison `now > expiresAt` can
\* still come out before, exactly at and after the expiry
ClockStep == SWEEP_INTERVAL_MINUTES

\* generateOTP draws from 100000..999999; two of its values are enough to
\* have a matching and a mismatching code
OTPValues == {100000, 100001}

\* ObjectIds of User documents, the addresses and passwords tried at login
UserIds == {"u1", "u2", "u3"}
Emails == {"u1@x", "u2@x", "u3@x"}
Passwords == {"pw1", "pw2"}
SessionIds == 1..(MaxSessions + 1)

NoRecord == [none |-> TRUE]
NoSession == [none |-> TRUE]
NoUser == [none |-> TRUE]

\* bcrypt.hash / bcrypt.compare: a one-way image of the password
hashPassword(password) == <<"bcrypt", password>>
verifyPassword(password, hash) == hashPassword(password) = hash

\* generateRSAKeyPair: the n-th pair drawn; a PEM string that is no key at all
generateRSAKeyPair(n) ==
    [publicKey |-> [kind |-> "public", pair |-> n],
     privateKey |-> [kind |-> "private", pair |-> n]]
MalformedKey == [kind |-> "malformed", pair |-> "none"]

\* POST /register: the document saved for a new user (its key pair is the
\* one drawn for it; isActive takes the schema default)
newUser(id, email, password, role) ==
    [id |-> id, username |-> id, email |-> email,
     passwordHash |-> hashPassword(password),
     role |-> IF role \in {"borrower", "issuer", "admin"} THEN role
              ELSE "borrower",
     publicKey |-> generateRSAKeyPair(id).publicKey,
     privateKey |-> generateRSAKeyPair(id).privateKey,
     isActive |-> TRUE]

\* the User collection when the server starts: u1 is enrolled, u2 is enrolled
\* and has been deactivated, nobody is registered under u3@x
InitialUsers ==
    [u \in {"u1", "u2"} |->
        IF u = "u1"
        THEN newUser("u1", "u1@x", "pw1", "borrower")
        ELSE [newUser("u2", "u2@x", "pw2", "borrower") EXCEPT !.isActive = FALSE]]

\* ---------------------------------------------------------- response texts
MsgNoOTP == "No OTP found. Please request a new one."
MsgOTPExpired == "OTP has expired. Please request a new one."
MsgTooMany == "Too many failed attempts. Please request a new OTP."
MsgInvalidOTP == "Invalid OTP. N attempts remaining."
MsgOTPVerified == "OTP verified successfully."
MsgBadCredentials == "Invalid email or password."
MsgDeactivated == "Account is deactivated."
MsgBadSession == "Invalid or expired session."
MsgSessionExpired == "Session expired. Please login again."
MsgOTPSent == "OTP sent to your email."
MsgOTPConsole == "OTP generated. Check console for development."
MsgUserNotFound == "User not found."
MsgTokenOk == "Login successful."

VARIABLES
    now,              \* Date.now(), in minutes
    User,             \* the User collection
    pendingSessions,  \* auth.routes: Map sessionId -> PendingSession
    otpStore,         \* otp.service: Map userId -> OTPRecord
    nextSid,          \* number of session ids drawn so far, plus one
    inflight,         \* handlers suspended at an await
    resp,             \* the response being sent, until it is delivered
    challenge,        \* history: the challenge last stored for each principal
    tokens,           \* history: every token generated
    Asset,            \* the Asset collection
    CheckoutRecord,   \* the CheckoutRecord collection
    call              \* a service function applied to arguments, and its value

vars == <<now, User, pendingSessions, otpStore, nextSid, inflight, resp,
          challenge, tokens, Asset, CheckoutRecord, call>>

NoResp == [op |-> "none", sid |-> 0, uid |-> "none", otp |-> 0,
           status |-> 0, message |-> "", remaining |-> -1]

Response(op, sid, uid, otp, status, message, remaining) ==
    [op |-> op, sid |-> sid, uid |-> uid, otp |-> otp,
     status |-> status, message |-> message, remaining |-> remaining]

\* ------------------------------------------------------------ otp.service
\* storeOTP carrying the attempt counter of the record it replaces
storeOTP_KeepAttempts(store, userId, otp, t) ==
    [store EXCEPT ![userId] =
        [otp |-> otp, expiresAt |-> t + OTP_EXPIRY_MINUTES,
         attempts |-> IF store[userId] = NoRecord THEN 0
                      ELSE store[userId].attempts]]

\* storeOTP leaving a record that is already stored in place
storeOTP_KeepExisting(store, userId, otp, t) ==
    IF store[userId] # NoRecord THEN store
    ELSE [store EXCEPT ![userId] =
            [otp |-> otp, expiresAt |-> t + OTP_EXPIRY_MINUTES, attempts |-> 0]]

\* storeOTP keeping the expiry of the record it replaces
storeOTP_KeepExpiry(store, userId, otp, t) ==
    [store EXCEPT ![userId] =
        [otp |-> otp,
         expiresAt |-> IF store[userId] = NoRecord THEN t + OTP_EXPIRY_MINUTES
                       ELSE store[userId].expiresAt,
         attempts |-> 0]]

storeOTP(store, userId, otp, t) ==
    [store EXCEPT ![userId] =
        [otp |-> otp, expiresAt |-> t + OTP_EXPIRY_MINUTES, attempts |-> 0]]

\* verifyOTP without the check of the attempt counter
verifyOTP_NoAttemptCheck(store, userId, inputOTP, t) ==
    LET record == store[userId] IN
    IF record = NoRecord
    THEN [store |-> store, success |-> FALSE, message |-> MsgNoOTP,
          remaining |-> -1]
    ELSE IF t > record.expiresAt
    THEN [store |-> [store EXCEPT ![userId] = NoRecord], success |-> FALSE,
          message |-> MsgOTPExpired, remaining |-> -1]
    ELSE IF record.otp # inputOTP
    THEN [store |-> [store EXCEPT ![userId].attempts = @ + 1],
          success |-> FALSE, message |-> MsgInvalidOTP,
          remaining |-> MAX_ATTEMPTS - (record.attempts + 1)]
    ELSE [store |-> [store EXCEPT ![userId] = NoRecord], success |-> TRUE,
          message |-> MsgOTPVerified, remaining |-> -1]

\* verifyOTP deleting the record as soon as the counter reaches the budget
verifyOTP_DeleteOnLastAttempt(store, userId, inputOTP, t) ==
    LET record == store[userId] IN
    IF record = NoRecord
    THEN [store |-> store, success |-> FALSE, message |-> MsgNoOTP,
          remaining |-> -1]
    ELSE IF t > record.expiresAt
    THEN [store |-> [store EXCEPT ![userId] = NoRecord], success |-> FALSE,
          message |-> MsgOTPExpired, remaining |-> -1]
    ELSE IF record.otp # inputOTP
    THEN IF record.attempts + 1 >= MAX_ATTEMPTS
         THEN [store |-> [store EXCEPT ![userId] = NoRecord], success |-> FALSE,
               message |-> MsgTooMany, remaining |-> -1]
         ELSE [store |-> [store EXCEPT ![userId].attempts = @ + 1],
               success |-> FALSE, message |-> MsgInvalidOTP,
               remaining |-> MAX_ATTEMPTS - (record.attempts + 1)]
    ELSE [store |-> [store EXCEPT ![userId] = NoRecord], success |-> TRUE,
          message |-> MsgOTPVerified, remaining |-> -1]

\* verifyOTP leaving the record in the store after a match
verifyOTP_KeepOnSuccess(store, userId, inputOTP, t) ==
    LET record == store[userId] IN
    IF record = NoRecord
    THEN [store |-> store, success |-> FALSE, message |-> MsgNoOTP,
          remaining |-> -1]
    ELSE IF t > record.expiresAt
    THEN [store |-> [store EXCEPT ![userId] = NoRecord], success |-> FALSE,
          message |-> MsgOTPExpired, remaining |-> -1]
    ELSE IF record.attempts >= MAX_ATTEMPTS
    THEN [store |-> [store EXCEPT ![userId] = NoRecord], success |-> FALSE,
          message |-> MsgTooMany, remaining |-> -1]
    ELSE IF record.otp # inputOTP
    THEN [store |-> [store EXCEPT ![userId].attempts = @ + 1],
          success |-> FALSE, message |-> MsgInvalidOTP,
          remaining |-> MAX_ATTEMPTS - (record.attempts + 1)]
    ELSE [store |-> store, success |-> TRUE,
          message |-> MsgOTPVerified, remaining |-> -1]

\* verifyOTP reporting a mismatch without counting it
verifyOTP_NoIncrement(store, userId, inputOTP, t) ==
    LET record == store[userId] IN
    IF record = NoRecord
    THEN [store |-> store, success |-> FALSE, message |-> MsgNoOTP,
          remaining |-> -1]
    ELSE IF t > record.expiresAt
    THEN [store |-> [store EXCEPT ![userId] = NoRecord], success |-> FALSE,
          message |-> MsgOTPExpired, remaining |-> -1]
    ELSE IF record.attempts >= MAX_ATTEMPTS
    THEN [store |-> [store EXCEPT ![userId] = NoRecord], success |-> FALSE,
          message |-> MsgTooMany, remaining |-> -1]
    ELSE IF record.otp # inputOTP
    THEN [store |-> store,
          success |-> FALSE, message |-> MsgInvalidOTP,
          remaining |-> MAX_ATTEMPTS - (record.attempts + 1)]
    ELSE [store |-> [store EXCEPT ![userId] = NoRecord], success |-> TRUE,
          message |-> MsgOTPVerified, remaining |-> -1]

\* verifyOTP without the check of the expiry
verifyOTP_NoExpiryCheck(store, userId, inputOTP, t) ==
    LET record == store[userId] IN
    IF record = NoRecord
    THEN [store |-> store, success |-> FALSE, message |-> MsgNoOTP,
          remaining |-> -1]
    ELSE IF record.attempts >= MAX_ATTEMPTS
    THEN [store |-> [store EXCEPT ![userId] = NoRecord], success |-> FALSE,
          message |-> MsgTooMany, remaining |-> -1]
    ELSE IF record.otp # inputOTP
    THEN [store |-> [store EXCEPT ![userId].attempts = @ + 1],
          success |-> FALSE, message |-> MsgInvalidOTP,
          remaining |-> MAX_ATTEMPTS - (record.attempts + 1)]
    ELSE [store |-> [store EXCEPT ![userId] = NoRecord], success |-> TRUE,
          message |-> MsgOTPVerified, remaining |-> -1]

\* verifyOTP comparing the counter with > instead of >=
verifyOTP_OffByOne(store, userId, inputOTP, t) ==
    LET record == store[userId] IN
    IF record = NoRecord
    THEN [store |-> store, success |-> FALSE, message |-> MsgNoOTP,
          remaining |-> -1]
    ELSE IF t > record.expiresAt
    THEN [store |-> [store EXCEPT ![userId] = NoRecord], success |-> FALSE,
          message |-> MsgOTPExpired, remaining |-> -1]
    ELSE IF record.attempts > MAX_ATTEMPTS
    THEN [store |-> [store EXCEPT ![userId] = NoRecord], success |-> FALSE,
          message |-> MsgTooMany, remaining |-> -1]
    ELSE IF record.otp # inputOTP
    THEN [store |-> [store EXCEPT ![userId].attempts = @ + 1],
          success |-> FALSE, message |-> MsgInvalidOTP,
          remaining |-> MAX_ATTEMPTS - (record.attempts + 1)]
    ELSE [store |-> [store EXCEPT ![userId] = NoRecord], success |-> TRUE,
          message |-> MsgOTPVerified, remaining |-> -1]

\* verifyOTP reporting the attempts that remained before the mismatch
verifyOTP_RemainingStale(store, userId, inputOTP, t) ==
    LET record == store[userId] IN
    IF record = NoRecord
    THEN [store |-> store, success |-> FALSE, message |-> MsgNoOTP,
          remaining |-> -1]
    ELSE IF t > record.expiresAt
    THEN [store |-> [store EXCEPT ![userId] = NoRecord], success |-> FALSE,
          message |-> MsgOTPExpired, remaining |-> -1]
    ELSE IF record.attempts >= MAX_ATTEMPTS
    THEN [store |-> [store EXCEPT ![userId] = NoRecord], success |-> FALSE,
          message |-> MsgTooMany, remaining |-> -1]
    ELSE IF record.otp # inputOTP
    THEN [store |-> [store EXCEPT ![userId].attempts = @ + 1],
          success |-> FALSE, message |-> MsgInvalidOTP,
          remaining |-> MAX_ATTEMPTS - record.attempts]
    ELSE [store |-> [store EXCEPT ![userId] = NoRecord], success |-> TRUE,
          message |-> MsgOTPVerified, remaining |-> -1]

\* the store after the call, and the value returned
verifyOTP(store, userId, inputOTP, t) ==
    LET record == store[userId] IN
    IF record = NoRecord
    THEN [store |-> store, success |-> FALSE, message |-> MsgNoOTP,
          remaining |-> -1]
    ELSE IF t > record.expiresAt
    THEN [store |-> [store EXCEPT ![userId] = NoRecord], success |-> FALSE,
          message |-> MsgOTPExpired, remaining |-> -1]
    ELSE IF record.attempts >= MAX_ATTEMPTS
    THEN [store |-> [store EXCEPT ![userId] = NoRecord], success |-> FALSE,
          message |-> MsgTooMany, remaining |-> -1]
    ELSE IF record.otp # inputOTP
    THEN [store |-> [store EXCEPT ![userId].attempts = @ + 1],
          success |-> FALSE, message |-> MsgInvalidOTP,
          remaining |-> MAX_ATTEMPTS - (record.attempts + 1)]
    ELSE [store |-> [store EXCEPT ![userId] = NoRecord], success |-> TRUE,
          message |-> MsgOTPVerified, remaining |-> -1]

\* initiateOTP storing the code only once the mail has been delivered
initiateOTP_StoreAfterDelivery(store, userId, otp, t, emailSent) ==
    [store |-> IF emailSent THEN storeOTP(store, userId, otp, t) ELSE store,
     success |-> TRUE,
     message |-> IF emailSent THEN MsgOTPSent ELSE MsgOTPConsole]

\* generateOTP has drawn otp; sendOTPEmail has returned emailSent
initiateOTP(store, userId, otp, t, emailSent) ==
    [store |-> storeOTP(store, userId, otp, t), success |-> TRUE,
     message |-> IF emailSent THEN MsgOTPSent ELSE MsgOTPConsole]

\* cleanupExpiredOTPs emptying the store once one record has expired
cleanupExpiredOTPs_All(store, t) ==
    IF \E u \in UserIds : store[u] # NoRecord /\ t > store[u].expiresAt
    THEN [u \in UserIds |-> NoRecord]
    ELSE store

cleanupExpiredOTPs(store, t) ==
    [u \in UserIds |->
        IF store[u] # NoRecord /\ t > store[u].expiresAt THEN NoRecord
        ELSE store[u]]

\* ------------------------------------------------------------ auth.routes
\* the expiry test with its operands exchanged
sessionExpired_Reversed(session, t) == session.expiresAt > t

sessionExpired(session, t) == t > session.expiresAt

newSession(user, t) ==
    [userId |-> user.id, email |-> user.email, role |-> user.role,
     expiresAt |-> t + SESSION_EXPIRY_MINUTES]

cleanupExpiredSessions(sessions, t) ==
    [s \in SessionIds |->
        IF sessions[s] # NoSession /\ sessionExpired(sessions[s], t)
        THEN NoSession ELSE sessions[s]]

findOneByEmail(email) ==
    IF \E u \in DOMAIN User : User[u].email = email
    THEN User[CHOOSE u \in DOMAIN User : User[u].email = email]
    ELSE NoUser

findById(id) == IF id \in DOMAIN User THEN User[id] ELSE NoUser

\* the claims signed into the token; sid is the login it was issued for
generateToken(user, sid) ==
    [id |-> user.id, email |-> user.email, role |-> user.role, sid |-> sid]

\* ---------------------------------------------------------- rbac.middleware
Roles == {"borrower", "issuer", "admin"}
Resources == {"asset", "checkout", "user"}
Permissions == {"create", "read", "update", "delete"}

accessControlMatrix ==
    [role \in Roles |->
        CASE role = "borrower" ->
                [resource \in Resources |->
                    CASE resource = "asset" -> {"read"}
                      [] resource = "checkout" -> {"create", "read"}
                      [] resource = "user" -> {"read"}]
          [] role = "issuer" ->
                [resource \in Resources |->
                    CASE resource = "asset" -> {"read", "update"}
                      [] resource = "checkout" -> {"read", "update"}
                      [] resource = "user" -> {}]
          [] role = "admin" ->
                [resource \in Resources |->
                    {"create", "read", "update", "delete"}]]

\* hasPermission looking only at the role's checkout entry
hasPermission_CheckoutColumn(role, resource, permission) ==
    IF role \notin DOMAIN accessControlMatrix THEN FALSE
    ELSE permission \in accessControlMatrix[role]["checkout"]

hasPermission(role, resource, permission) ==
    IF role \notin DOMAIN accessControlMatrix THEN FALSE
    ELSE IF resource \notin DOMAIN accessControlMatrix[role] THEN FALSE
    ELSE permission \in accessControlMatrix[role][resource]

\* the middlewares return the status they answer with, 0 when they call next()
NoReqUser == [none |-> TRUE]

authorize(reqUser, resource, permission) ==
    IF reqUser = NoReqUser THEN 401
    ELSE IF ~hasPermission(reqUser.role, resource, permission) THEN 403
    ELSE 0

requireRole(reqUser, allowedRoles) ==
    IF reqUser = NoReqUser THEN 401
    ELSE IF reqUser.role \notin allowedRoles THEN 403
    ELSE 0

\* selfOrAdmin deciding by the access matrix instead of the identity
selfOrAdmin_ByMatrix(reqUser, targetUserId) ==
    IF reqUser = NoReqUser THEN 401
    ELSE IF ~hasPermission(reqUser.role, "user", "read") THEN 403
    ELSE 0

selfOrAdmin(reqUser, targetUserId) ==
    IF reqUser = NoReqUser THEN 401
    ELSE LET isOwnProfile == reqUser.id = targetUserId
             isAdmin == reqUser.role = "admin"
         IN IF ~isOwnProfile /\ ~isAdmin THEN 403 ELSE 0

\* ------------------------------------------------------------ JSON values
\* A JavaScript value is a tagged number: strings are numbered, a Date is
\* numbered by its instant, and Date.toISOString() is a string of its own.
\* An object is the sequence of its members in insertion order.
JStr(n) == [t |-> "string", v |-> n]
JDate(d) == [t |-> "Date", v |-> d]
JNull == [t |-> "null", v |-> 0]
JUndefined == [t |-> "undefined", v |-> 0]
toISOString(d) == JStr(1000 + d)

Member(k, v) == [k |-> k, v |-> v]

RECURSIVE JSON_stringify(_)
\* JSON.stringify: members holding undefined are left out, a Date is written
\* as its ISO string
JSON_stringify(obj) ==
    IF obj = << >> THEN << >>
    ELSE LET m == Head(obj)
             rest == JSON_stringify(Tail(obj))
         IN IF m.v.t = "undefined" THEN rest
            ELSE IF m.v.t = "Date" THEN <<Member(m.k, toISOString(m.v.v))>> \o rest
            ELSE <<m>> \o rest

\* JSON.parse of a text written by JSON.stringify: the members it holds
JSON_parse(text) == text

\* ------------------------------------------------------ encryption.service
Threw == [threw |-> TRUE]
Returned(value) == [threw |-> FALSE, value |-> value]

encryptAES(data, key, iv) ==
    [alg |-> "aes-256-cbc", key |-> key, iv |-> iv, plain |-> data]

\* a wrong key or iv ends in a bad-decrypt error of decipher.final
decryptAES(encryptedData, key, iv) ==
    IF encryptedData.key = key /\ encryptedData.iv = iv
    THEN Returned(encryptedData.plain)
    ELSE Threw

encryptAESKeyWithRSA(aesKey, publicKey) ==
    [alg |-> "rsa-oaep-sha256", pair |-> publicKey.pair, key |-> aesKey]

\* privateDecrypt with another pair's key fails the OAEP check
decryptAESKeyWithRSA(encryptedAESKey, privateKey) ==
    IF privateKey.kind = "private" /\ privateKey.pair = encryptedAESKey.pair
    THEN Returned(encryptedAESKey.key)
    ELSE Threw

\* generateAESKey and generateIV have drawn aesKey and iv
encryptData(data, recipientPublicKey, aesKey, iv) ==
    LET jsonData == JSON_stringify(data) IN
    [encryptedData |-> encryptAES(jsonData, aesKey, iv),
     encryptedAESKey |-> encryptAESKeyWithRSA(aesKey, recipientPublicKey),
     iv |-> iv]

\* decryptData unwrapping the AES key with whatever private key it is given
decryptData_AnyKey(encryptedData, encryptedAESKey, iv, privateKey) ==
    LET jsonData == decryptAES(encryptedData, encryptedAESKey.key, iv) IN
    IF jsonData = Threw THEN Threw
    ELSE Returned(JSON_parse(jsonData.value))

decryptData(encryptedData, encryptedAESKey, iv, privateKey) ==
    LET aesKey == decryptAESKeyWithRSA(encryptedAESKey, privateKey) IN
    IF aesKey = Threw THEN Threw
    ELSE LET jsonData == decryptAES(encryptedData, aesKey.value, iv) IN
         IF jsonData = Threw THEN Threw
         ELSE Returned(JSON_parse(jsonData.value))

\* ------------------------------------------------------- signature.service
MalformedSignature == [alg |-> "malformed", pair |-> "none", digest |-> << >>]

createDigitalSignature(data, privateKey) ==
    [alg |-> "RSA-SHA256", pair |-> privateKey.pair,
     digest |-> JSON_stringify(data)]

\* verify.verify(publicKey, signature, 'base64'): throws on a key it cannot
\* read, otherwise tells whether the signature is one of jsonData by the pair
cryptoVerify(jsonData, publicKey, signature) ==
    IF publicKey.kind = "malformed" THEN "throws"
    ELSE IF /\ signature.alg = "RSA-SHA256"
            /\ signature.pair = publicKey.pair
            /\ signature.digest = jsonData
    THEN "true" ELSE "false"

\* verifyDigitalSignature checking the signer's pair only
verifyDigitalSignature_SignerOnly(data, signature, publicKey) ==
    /\ publicKey.kind # "malformed"
    /\ signature.alg = "RSA-SHA256"
    /\ signature.pair = publicKey.pair

\* try { ... } catch { return false }
verifyDigitalSignature(data, signature, publicKey) ==
    cryptoVerify(JSON_stringify(data), publicKey, signature) = "true"

\* ---------------------------------------------------------------- history
\* challenge[u] describes the challenge last stored for u:
\*   otp    the code that was issued, prev the code it replaced (0 if none);
\*   wrong  how many submissions carrying another code were compared with it
\*          while it was stored and unexpired (counted up to MAX_ATTEMPTS);
\*   ok     how many submissions verifyOTP accepted against it (up to 2);
\*   spent  whether, since the last login of u, three mismatches had been
\*          submitted against an earlier challenge when this one was stored;
\*   sent   whether sendOTPEmail delivered the code;
\*   renewed  what the login that stored it found of the challenge before:
\*          "exhausted" (three mismatches counted), "expired", or "no"
NoChallenge == [none |-> TRUE]

LogIssue(log, u, otp, op, emailSent) ==
    LET old == log[u] IN
    [log EXCEPT ![u] =
        [otp |-> otp,
         prev |-> IF old = NoChallenge THEN 0 ELSE old.otp,
         wrong |-> 0,
         ok |-> 0,
         spent |-> /\ op = "resend"
                   /\ old # NoChallenge
                   /\ (old.spent \/ old.wrong >= MAX_ATTEMPTS),
         sent |-> emailSent,
         renewed |-> IF op # "login" \/ old = NoChallenge THEN "no"
                     ELSE IF old.wrong >= MAX_ATTEMPTS THEN "exhausted"
                     ELSE IF otpStore[u] # NoRecord /\ now > otpStore[u].expiresAt
                     THEN "expired"
                     ELSE "no"]]

LogVerify(log, u, inputOTP, result, t) ==
    IF otpStore[u] = NoRecord \/ log[u] = NoChallenge THEN log
    ELSE IF result.success THEN [log EXCEPT ![u].ok = IF @ >= 2 THEN @ ELSE @ + 1]
    ELSE IF t <= otpStore[u].expiresAt /\ inputOTP # log[u].otp
    THEN [log EXCEPT ![u].wrong = IF @ >= MAX_ATTEMPTS THEN @ ELSE @ + 1]
    ELSE log

\* --------------------------------------------------------------- handlers
\* inflight is the bag of continuations of the handlers suspended at an await;
\* a continuation keeps the locals the handler still reads after the await
\* (of the session object: its userId)
\* the collections of assets and checkout records
AssetIds == {"a1"}
RecordIds == 1..MaxRecords
NoAsset == [none |-> TRUE]
NoCheckout == [none |-> TRUE]
NoCall == [fn |-> "none"]
InitialAssets ==
    [a \in AssetIds |-> [id |-> a, assetId |-> JStr(1), status |-> "available",
                         currentHolder |-> "none"]]

CanSuspend == BagCardinality(inflight) < MaxInflight
Suspend(cont) == inflight' = inflight (+) SetToBag({cont})
Resume(cont) == inflight' = inflight (-) SetToBag({cont})
Pending(pcs) ==
    BagCardinality([c \in {x \in BagToSet(inflight) : x.pc \in pcs} |-> inflight[c]])

Init ==
    /\ now = 0
    /\ User = InitialUsers
    /\ pendingSessions = [s \in SessionIds |-> NoSession]
    /\ otpStore = [u \in UserIds |-> NoRecord]
    /\ nextSid = 1
    /\ inflight = EmptyBag
    /\ resp = NoResp
    /\ challenge = [u \in UserIds |-> NoChallenge]
    /\ tokens = {}
    /\ Asset = InitialAssets
    /\ CheckoutRecord = [r \in RecordIds |-> NoCheckout]
    /\ call = NoCall

\* POST /login up to `await verifyPassword`: the document found by e-mail
LoginFindUser(email, password) ==
    /\ resp = NoResp
    /\ CanSuspend
    /\ nextSid + Pending({"login:verifyPassword"}) <= MaxSessions
    /\ LET user == findOneByEmail(email) IN
        IF user = NoUser
        THEN /\ resp' = Response("login", 0, "none", 0, 401, MsgBadCredentials, -1)
             /\ UNCHANGED inflight
        ELSE IF ~user.isActive
        THEN /\ resp' = Response("login", 0, user.id, 0, 401, MsgDeactivated, -1)
             /\ UNCHANGED inflight
        ELSE /\ Suspend([pc |-> "login:verifyPassword", user |-> user,
                         password |-> password])
             /\ resp' = NoResp
    /\ UNCHANGED <<now, User, pendingSessions, otpStore, nextSid, challenge, tokens>>
    /\ UNCHANGED <<Asset, CheckoutRecord, call>>

\* POST /login after `await verifyPassword`: the session and the challenge
\* are stored in one synchronous segment; the mail is sent (or not) after it
LoginCreateSession(k, otp, emailSent) ==
    /\ resp = NoResp
    /\ k.pc = "login:verifyPassword"
    /\ Resume(k)
    /\ LET user == k.user IN
        IF ~verifyPassword(k.password, user.passwordHash)
        THEN /\ resp' = Response("login", 0, user.id, 0, 401, MsgBadCredentials, -1)
             /\ UNCHANGED <<pendingSessions, otpStore, nextSid, challenge>>
        ELSE /\ pendingSessions' =
                    [pendingSessions EXCEPT ![nextSid] = newSession(user, now)]
             /\ nextSid' = nextSid + 1
             /\ LET otpResult == initiateOTP(otpStore, user.id, otp, now, emailSent) IN
                 /\ otpStore' = otpResult.store
                 /\ resp' = Response("login", nextSid, user.id, 0, 200,
                                     otpResult.message, -1)
             /\ challenge' = LogIssue(challenge, user.id, otp, "login", emailSent)
    /\ UNCHANGED <<now, User, tokens>>
    /\ UNCHANGED <<Asset, CheckoutRecord, call>>

\* POST /verify-otp up to `await User.findById`
VerifyOtp(sessionId, otp) ==
    LET session == pendingSessions[sessionId] IN
    /\ resp = NoResp
    /\ IF session = NoSession
       THEN /\ resp' = Response("verify-otp", sessionId, "none", otp, 401,
                                MsgBadSession, -1)
            /\ UNCHANGED <<pendingSessions, otpStore, inflight, challenge>>
       ELSE IF sessionExpired(session, now)
       THEN /\ pendingSessions' = [pendingSessions EXCEPT ![sessionId] = NoSession]
            /\ resp' = Response("verify-otp", sessionId, session.userId, otp, 401,
                                MsgSessionExpired, -1)
            /\ UNCHANGED <<otpStore, inflight, challenge>>
       ELSE LET otpResult == verifyOTP(otpStore, session.userId, otp, now) IN
            /\ otpStore' = otpResult.store
            /\ challenge' = LogVerify(challenge, session.userId, otp, otpResult, now)
            /\ IF ~otpResult.success
               THEN /\ resp' = Response("verify-otp", sessionId, session.userId, otp,
                                        401, otpResult.message, otpResult.remaining)
                    /\ UNCHANGED <<pendingSessions, inflight>>
               ELSE /\ CanSuspend
                    /\ pendingSessions' =
                           [pendingSessions EXCEPT ![sessionId] = NoSession]
                    /\ Suspend([pc |-> "verify:findById", sid |-> sessionId,
                                userId |-> session.userId])
                    /\ resp' = NoResp
    /\ UNCHANGED <<now, User, nextSid, tokens>>
    /\ UNCHANGED <<Asset, CheckoutRecord, call>>

\* POST /verify-otp after `await User.findById`: the token is generated from
\* the document as it is now (documents are never removed)
VerifyIssueToken(k) ==
    /\ resp = NoResp
    /\ k.pc = "verify:findById"
    /\ Resume(k)
    /\ LET user == findById(k.userId) IN
        IF user = NoUser
        THEN /\ resp' = Response("verify-otp", k.sid, k.userId, 0, 401,
                                 MsgUserNotFound, -1)
             /\ UNCHANGED tokens
        ELSE /\ tokens' = tokens \cup {generateToken(user, k.sid)}
             /\ resp' = Response("verify-otp", k.sid, user.id, 0, 200,
                                 MsgTokenOk, -1)
    /\ UNCHANGED <<now, User, pendingSessions, otpStore, nextSid, challenge>>
    /\ UNCHANGED <<Asset, CheckoutRecord, call>>

\* POST /resend-otp up to `await User.findById`
ResendFindSession(sessionId) ==
    LET session == pendingSessions[sessionId] IN
    /\ resp = NoResp
    /\ IF session = NoSession
       THEN /\ resp' = Response("resend-otp", sessionId, "none", 0, 401,
                                MsgBadSession, -1)
            /\ UNCHANGED inflight
       ELSE /\ CanSuspend
            /\ Suspend([pc |-> "resend:findById", sid |-> sessionId,
                        userId |-> session.userId])
            /\ resp' = NoResp
    /\ UNCHANGED <<now, User, pendingSessions, otpStore, nextSid, challenge, tokens>>
    /\ UNCHANGED <<Asset, CheckoutRecord, call>>

\* POST /resend-otp after `await User.findById`: initiateOTP
ResendInitiateOTP(k, otp, emailSent) ==
    /\ resp = NoResp
    /\ k.pc = "resend:findById"
    /\ Resume(k)
    /\ IF findById(k.userId) = NoUser
       THEN /\ resp' = Response("resend-otp", k.sid, k.userId, 0, 401,
                                MsgUserNotFound, -1)
            /\ UNCHANGED <<otpStore, challenge>>
       ELSE LET otpResult == initiateOTP(otpStore, k.userId, otp, now, emailSent) IN
            /\ otpStore' = otpResult.store
            /\ challenge' = LogIssue(challenge, k.userId, otp, "resend", emailSent)
            /\ resp' = Response("resend-otp", k.sid, k.userId, 0, 200,
                                otpResult.message, -1)
    /\ UNCHANGED <<now, User, pendingSessions, nextSid, tokens>>
    /\ UNCHANGED <<Asset, CheckoutRecord, call>>

\* setInterval(cleanupExpiredOTPs, 5 min)
SweepOTPs ==
    /\ resp = NoResp
    /\ otpStore' = cleanupExpiredOTPs(otpStore, now)
    /\ resp' = NoResp
    /\ UNCHANGED <<now, User, pendingSessions, nextSid, inflight, challenge, tokens>>
    /\ UNCHANGED <<Asset, CheckoutRecord, call>>

\* setInterval(<session cleanup>, 5 min)
SweepSessions ==
    /\ resp = NoResp
    /\ pendingSessions' = cleanupExpiredSessions(pendingSessions, now)
    /\ resp' = NoResp
    /\ UNCHANGED <<now, User, otpStore, nextSid, inflight, challenge, tokens>>
    /\ UNCHANGED <<Asset, CheckoutRecord, call>>

\* res.json(...): the response written by the last segment leaves the server
Deliver ==
    /\ resp # NoResp
    /\ resp' = NoResp
    /\ UNCHANGED <<now, User, pendingSessions, otpStore, nextSid, inflight, challenge, tokens>>
    /\ UNCHANGED <<Asset, CheckoutRecord, call>>

Tick ==
    /\ resp = NoResp
    /\ now + ClockStep <= MaxTime
    /\ now' = now + ClockStep
    /\ resp' = NoResp
    /\ UNCHANGED <<User, pendingSessions, otpStore, nextSid, inflight, challenge, tokens>>
    /\ UNCHANGED <<Asset, CheckoutRecord, call>>

Next ==
    \/ \E e \in Emails, p \in Passwords : LoginFindUser(e, p)
    \/ \E k \in BagToSet(inflight), c \in OTPValues, sent \in BOOLEAN :
          LoginCreateSession(k, c, sent)
    \/ \E s \in SessionIds, c \in OTPValues : VerifyOtp(s, c)
    \/ \E k \in BagToSet(inflight) : VerifyIssueToken(k)
    \/ \E s \in SessionIds : ResendFindSession(s)
    \/ \E k \in BagToSet(inflight), c \in OTPValues, sent \in BOOLEAN :
          ResendInitiateOTP(k, c, sent)
    \/ SweepOTPs
    \/ SweepSessions
    \/ Deliver
    \/ Tick

Spec == Init /\ [][Next]_vars

\* ------------------------------------------------ two principals logging in
\* u1 and u2 are both enrolled and active; the handlers are those of Spec
PairUsers ==
    [u \in {"u1", "u2"} |->
        IF u = "u1" THEN newUser("u1", "u1@x", "pw1", "borrower")
        ELSE newUser("u2", "u2@x", "pw2", "borrower")]

PairInit ==
    /\ now = 0
    /\ User = PairUsers
    /\ pendingSessions = [s \in SessionIds |-> NoSession]
    /\ otpStore = [u \in UserIds |-> NoRecord]
    /\ nextSid = 1
    /\ inflight = EmptyBag
    /\ resp = NoResp
    /\ challenge = [u \in UserIds |-> NoChallenge]
    /\ tokens = {}
    /\ Asset = InitialAssets
    /\ CheckoutRecord = [r \in RecordIds |-> NoCheckout]
    /\ call = NoCall

\* generateOTP draws IssuedOTP and the mail is delivered; any code is submitted
IssuedOTP == 100000

PairNext ==
    \/ \E e \in {"u1@x", "u2@x"}, p \in Passwords : LoginFindUser(e, p)
    \/ \E k \in BagToSet(inflight) : LoginCreateSession(k, IssuedOTP, TRUE)
    \/ \E s \in SessionIds, c \in OTPValues : VerifyOtp(s, c)
    \/ \E k \in BagToSet(inflight) : VerifyIssueToken(k)
    \/ \E s \in SessionIds : ResendFindSession(s)
    \/ \E k \in BagToSet(inflight) : ResendInitiateOTP(k, IssuedOTP, TRUE)
    \/ SweepOTPs
    \/ SweepSessions
    \/ Deliver
    \/ Tick

PairSpec == PairInit /\ [][PairNext]_vars

\* ------------------------------------------- the service functions alone
\* The functions of rbac.middleware, encryption.service and
\* signature.service are applied to arguments drawn from bounded sets:
\* call holds the arguments and, once the function has returned, its value.
UnknownRole == "guest"
UnknownResource == "report"

PayloadValues ==
    {JStr(1), JStr(2), toISOString(1), JDate(1), JNull, JUndefined}

\* objects of one or two members, as the handlers build them
Payloads ==
    {<<Member("assetId", x)>> : x \in PayloadValues}
        \cup {<<Member("assetId", x), Member("issueDate", y)>> :
                x \in PayloadValues, y \in PayloadValues}

KeyPairs == {"u1", "u2"}
AESKeys == {1}
IVs == {1}

HasPermissionCalls ==
    [fn : {"hasPermission"}, role : Roles \cup {UnknownRole},
     resource : Resources \cup {UnknownResource}, permission : Permissions,
     returned : {FALSE}, result : {FALSE}]

DecryptDataCalls ==
    [fn : {"decryptData"}, data : Payloads, recipient : KeyPairs,
     privateKey : {generateRSAKeyPair(n).privateKey : n \in KeyPairs}
                      \cup {MalformedKey},
     aesKey : AESKeys, iv : IVs,
     returned : {FALSE}, result : {Threw}, shown : {<< >>}]

VerifyCalls ==
    [fn : {"verifyDigitalSignature"}, signed : Payloads, data : Payloads,
     signer : KeyPairs,
     publicKey : {generateRSAKeyPair(n).publicKey : n \in KeyPairs}
                      \cup {MalformedKey},
     intact : BOOLEAN,
     returned : {FALSE}, result : {FALSE}]

\* GET /checkout/:id, the try / catch around decryptData
\* (its message is a string no payload holds)
NotIntendedRecipient == <<Member("message", JStr(0))>>

decryptForView(record, user) ==
    LET decryptedData == decryptData(record.encryptedData, record.encryptedAESKey,
                                     record.iv, user.privateKey)
    IN IF decryptedData = Threw THEN NotIntendedRecipient
       ELSE decryptedData.value

PureInit ==
    /\ now = 0
    /\ User = InitialUsers
    /\ pendingSessions = [s \in SessionIds |-> NoSession]
    /\ otpStore = [u \in UserIds |-> NoRecord]
    /\ nextSid = 1
    /\ inflight = EmptyBag
    /\ resp = NoResp
    /\ challenge = [u \in UserIds |-> NoChallenge]
    /\ tokens = {}
    /\ Asset = InitialAssets
    /\ CheckoutRecord = [r \in RecordIds |-> NoCheckout]
    /\ call \in HasPermissionCalls \cup DecryptDataCalls \cup VerifyCalls

ApplyHasPermission ==
    /\ call.fn = "hasPermission"
    /\ ~call.returned
    /\ call' = [call EXCEPT
                  !.returned = TRUE,
                  !.result = hasPermission(call.role, call.resource,
                                           call.permission)]
    /\ UNCHANGED <<now, User, pendingSessions, otpStore, nextSid, inflight,
                   resp, challenge, tokens, Asset, CheckoutRecord>>

\* encryptData for the recipient, then decryptData with call.privateKey, as
\* GET /checkout/:id does with the stored record
ApplyDecryptData ==
    /\ call.fn = "decryptData"
    /\ ~call.returned
    /\ LET encrypted == encryptData(call.data,
                                    generateRSAKeyPair(call.recipient).publicKey,
                                    call.aesKey, call.iv)
       IN call' = [call EXCEPT
                     !.returned = TRUE,
                     !.result = decryptData(encrypted.encryptedData,
                                            encrypted.encryptedAESKey,
                                            encrypted.iv, call.privateKey),
                     !.shown = decryptForView(encrypted,
                                              [privateKey |-> call.privateKey])]
    /\ UNCHANGED <<now, User, pendingSessions, otpStore, nextSid, inflight,
                   resp, challenge, tokens, Asset, CheckoutRecord>>

\* createDigitalSignature of call.signed by the signer, then
\* verifyDigitalSignature of call.data against that signature (or, when not
\* intact, against a string that is no signature)
ApplyVerifyDigitalSignature ==
    /\ call.fn = "verifyDigitalSignature"
    /\ ~call.returned
    /\ LET signature ==
              IF call.intact
              THEN createDigitalSignature(call.signed,
                       generateRSAKeyPair(call.signer).privateKey)
              ELSE MalformedSignature
       IN call' = [call EXCEPT
                     !.returned = TRUE,
                     !.result = verifyDigitalSignature(call.data, signature,
                                                       call.publicKey)]
    /\ UNCHANGED <<now, User, pendingSessions, otpStore, nextSid, inflight,
                   resp, challenge, tokens, Asset, CheckoutRecord>>

PureNext ==
    \/ ApplyHasPermission
    \/ ApplyDecryptData
    \/ ApplyVerifyDigitalSignature

PureSpec == PureInit /\ [][PureNext]_vars

\* ------------------------------------------------- the protected routes
\* Requests carrying a bearer token: authenticate, the guard of the route
\* (rbac.middleware) and the handlers of user.routes and checkout.routes.
\* The clock stands still and nobody logs in: the tokens are those issued to
\* the three enrolled principals when they logged in.
AccessUsers ==
    [u \in UserIds |->
        CASE u = "u1" -> newUser("u1", "u1@x", "pw1", "borrower")
          [] u = "u2" -> newUser("u2", "u2@x", "pw2", "issuer")
          [] u = "u3" -> newUser("u3", "u3@x", "pw3", "admin")]

MsgNoToken == "Access denied. No token provided."
MsgInvalidToken == "Invalid token."
MsgTokenUserInvalid == "Invalid token. User not found or inactive."
MsgAuthRequired == "Authentication required."
MsgAccessDenied == "Access denied."
MsgUserUpdated == "User updated successfully."
MsgCannotDeleteSelf == "Cannot delete your own account."
MsgUserDeactivated == "User deactivated successfully."
MsgAssetIdRequired == "Asset ID is required."
MsgAssetNotFound == "Asset not found."
MsgAssetNotAvailable == "Asset is not available for checkout."
MsgRequestSubmitted == "Checkout request submitted."
MsgRecordNotFound == "Checkout record not found."
MsgNotPending == "Record is not pending approval."
MsgBorrowerNotFound == "Borrower not found."
MsgApproved == "Checkout approved and digitally signed."
MsgRecord == "record"
MsgRecords == "records"
MsgRejectNotPending == "Record is not pending."
MsgRejected == "Checkout request rejected."
MsgReturnOwnOnly == "You can only return your own checkouts."
MsgNotApproved == "Record is not in approved/checked-out status."
MsgReturned == "Asset returned successfully."
MsgUser == "user"

GetUser == "GET /users/:id"
PutUser == "PUT /users/:id"
DeleteUser == "DELETE /users/:id"
RequestCheckout == "POST /checkout/request"
ApproveCheckout == "PUT /checkout/:id/approve"
ViewCheckout == "GET /checkout/:id"
ListCheckout == "GET /checkout"
RejectCheckout == "PUT /checkout/:id/reject"
ReturnCheckout == "PUT /checkout/:id/return"

\* req.params and req.body; a field the request does not carry is undefined
\* (the requests made carry no username, email, password or notes; a profile
\* update asks for the role borrower or for a value of isActive)
NoBody ==
    [role |-> "undefined", isActive |-> "undefined", assetId |-> "undefined",
     dueDate |-> JUndefined]

Request(route, target, rid, body) ==
    [route |-> route, target |-> target, rid |-> rid, body |-> body]

Requests ==
    {Request(GetUser, t, 0, NoBody) : t \in UserIds}
        \cup {Request(PutUser, t, 0, [NoBody EXCEPT !.role = "borrower"]) :
                t \in UserIds}
        \cup {Request(PutUser, t, 0, [NoBody EXCEPT !.isActive = a]) :
                t \in UserIds, a \in {"true", "false"}}
        \cup {Request(DeleteUser, t, 0, NoBody) : t \in UserIds}
        \cup {Request(RequestCheckout, "none", 0,
                      [NoBody EXCEPT !.assetId = a, !.dueDate = d]) :
                a \in AssetIds \cup {"undefined"}, d \in {JUndefined, JStr(2)}}
        \cup {Request(ApproveCheckout, "none", r, NoBody) : r \in RecordIds}
        \cup {Request(ViewCheckout, "none", r, NoBody) : r \in RecordIds}

\* the Authorization header: none, a token the server signed, or claims
\* signed by somebody else
NoToken == [none |-> TRUE]
ForgedTokens == {[id |-> "u1", email |-> "u1@x", role |-> "admin", sid |-> 0]}

\* jwt.verify (no token expires while the clock stands still)
jwtVerify(token) ==
    IF token \in tokens
    THEN Returned([id |-> token.id, email |-> token.email, role |-> token.role])
    ELSE Threw

\* authenticate accepting the token of every user that exists
tokenUserValid_ExistsOnly(user) == user # NoUser

\* authenticate: `!user || !user.isActive` is false
tokenUserValid(user) == user # NoUser /\ user.isActive

Reply(op, uid, status, message, data) ==
    [op |-> op, uid |-> uid, status |-> status, message |-> message,
     data |-> data]

Continue(k, cont) ==
    inflight' = (inflight (-) SetToBag({k})) (+) SetToBag({cont})

AccessInit ==
    /\ now = 0
    /\ User = AccessUsers
    /\ pendingSessions = [s \in SessionIds |-> NoSession]
    /\ otpStore = [u \in UserIds |-> NoRecord]
    /\ nextSid = 1
    /\ inflight = EmptyBag
    /\ resp = NoResp
    /\ challenge = [u \in UserIds |-> NoChallenge]
    /\ tokens = {generateToken(AccessUsers[u], 0) : u \in UserIds}
    /\ Asset = InitialAssets
    /\ CheckoutRecord = [r \in RecordIds |-> NoCheckout]
    /\ call = NoCall

\* a checkout request is taken only while a record id is left for it
CanCreateRecord ==
    Cardinality({r \in DOMAIN CheckoutRecord : CheckoutRecord[r] # NoCheckout})
        + BagCardinality([c \in {x \in BagToSet(inflight) :
                                    x.route = RequestCheckout} |-> inflight[c]])
        < Cardinality(DOMAIN CheckoutRecord)

\* authenticate up to `await User.findById(decoded.id)`, while fewer than
\* limit handlers are suspended
AuthenticateWithin(limit, token, request) ==
    /\ resp = NoResp
    /\ IF token = NoToken
       THEN /\ resp' = Reply(request.route, "none", 401, MsgNoToken,
                            [target |-> request.target, rid |-> request.rid])
            /\ UNCHANGED inflight
       ELSE IF jwtVerify(token) = Threw
       THEN /\ resp' = Reply(request.route, "none", 401, MsgInvalidToken,
                            [target |-> request.target, rid |-> request.rid])
            /\ UNCHANGED inflight
       ELSE /\ BagCardinality(inflight) < limit
            /\ request.route = RequestCheckout => CanCreateRecord
            /\ Suspend([pc |-> "authenticate:findById",
                        reqUser |-> jwtVerify(token).value,
                        route |-> request.route, target |-> request.target,
                        rid |-> request.rid, body |-> request.body])
            /\ resp' = NoResp
    /\ UNCHANGED <<now, User, pendingSessions, otpStore, nextSid, challenge,
                   tokens, Asset, CheckoutRecord, call>>

Authenticate(token, request) == AuthenticateWithin(MaxInflight, token, request)

\* the guard between authenticate and the handler of each route
routeGuard(k) ==
    CASE k.route \in {GetUser, PutUser} -> selfOrAdmin(k.reqUser, k.target)
      [] k.route = DeleteUser -> authorize(k.reqUser, "user", "delete")
      [] k.route = RequestCheckout -> authorize(k.reqUser, "checkout", "create")
      [] k.route = ApproveCheckout -> requireRole(k.reqUser, {"issuer", "admin"})
      [] k.route = ViewCheckout -> 0
      [] k.route = ListCheckout -> 0
      [] k.route = RejectCheckout -> requireRole(k.reqUser, {"issuer", "admin"})
      [] k.route = ReturnCheckout -> 0

\* the await at which the handler of each route first suspends
firstAwait(route) ==
    CASE route = GetUser -> "getUser:findById"
      [] route = PutUser -> "putUser:findById"
      [] route = DeleteUser -> "deleteUser:findById"
      [] route = RequestCheckout -> "request:findAsset"
      [] route = ApproveCheckout -> "approve:findRecord"
      [] route = ViewCheckout -> "view:findRecord"
      [] route = ListCheckout -> "list:find"
      [] route = RejectCheckout -> "reject:findRecord"
      [] route = ReturnCheckout -> "return:findRecord"

\* authenticate after `await User.findById`, then next(): the guard and the
\* handler up to its first await
Authenticated(k) ==
    /\ resp = NoResp
    /\ k.pc = "authenticate:findById"
    /\ LET user == findById(k.reqUser.id) IN
       IF ~tokenUserValid(user)
       THEN /\ resp' = Reply(k.route, k.reqUser.id, 401, MsgTokenUserInvalid, [target |-> k.target, rid |-> k.rid])
            /\ Resume(k)
       ELSE IF routeGuard(k) = 401
       THEN /\ resp' = Reply(k.route, k.reqUser.id, 401, MsgAuthRequired, [target |-> k.target, rid |-> k.rid])
            /\ Resume(k)
       ELSE IF routeGuard(k) = 403
       THEN /\ resp' = Reply(k.route, k.reqUser.id, 403, MsgAccessDenied, [target |-> k.target, rid |-> k.rid])
            /\ Resume(k)
       ELSE IF k.route = RequestCheckout /\ k.body.assetId = "undefined"
       THEN /\ resp' = Reply(k.route, k.reqUser.id, 400, MsgAssetIdRequired, [target |-> k.target, rid |-> k.rid])
            /\ Resume(k)
       ELSE /\ Continue(k, [k EXCEPT !.pc = firstAwait(k.route)])
            /\ resp' = NoResp
    /\ UNCHANGED <<now, User, pendingSessions, otpStore, nextSid, challenge,
                   tokens, Asset, CheckoutRecord, call>>

\* GET /users/:id after `await User.findById(...).select(...)`
GetUserFound(k) ==
    /\ resp = NoResp
    /\ k.pc = "getUser:findById"
    /\ Resume(k)
    /\ LET user == findById(k.target) IN
       IF user = NoUser
       THEN resp' = Reply(k.route, k.reqUser.id, 404, MsgUserNotFound, [target |-> k.target])
       ELSE resp' = Reply(k.route, k.reqUser.id, 200, MsgUser,
                          [id |-> user.id, username |-> user.username,
                           email |-> user.email, role |-> user.role,
                           publicKey |-> user.publicKey,
                           isActive |-> user.isActive])
    /\ UNCHANGED <<now, User, pendingSessions, otpStore, nextSid, challenge,
                   tokens, Asset, CheckoutRecord, call>>

\* PUT /users/:id after `await User.findById`: the document is changed in
\* memory (role and isActive only for a token of role admin) and saved
PutUserFound(k) ==
    /\ resp = NoResp
    /\ k.pc = "putUser:findById"
    /\ LET user == findById(k.target) IN
       IF user = NoUser
       THEN /\ resp' = Reply(k.route, k.reqUser.id, 404, MsgUserNotFound, [target |-> k.target])
            /\ Resume(k)
       ELSE LET isAdmin == k.reqUser.role = "admin"
                role == IF isAdmin /\ k.body.role # "undefined"
                        THEN k.body.role ELSE user.role
                isActive == IF isAdmin /\ k.body.isActive # "undefined"
                            THEN k.body.isActive = "true" ELSE user.isActive
            IN /\ Continue(k, [pc |-> "putUser:save", reqUser |-> k.reqUser,
                               route |-> k.route, target |-> k.target,
                               role |-> role, isActive |-> isActive,
                               modified |-> {f \in {"role", "isActive"} :
                                   \/ f = "role" /\ role # user.role
                                   \/ f = "isActive" /\ isActive # user.isActive}])
               /\ resp' = NoResp
    /\ UNCHANGED <<now, User, pendingSessions, otpStore, nextSid, challenge,
                   tokens, Asset, CheckoutRecord, call>>

\* PUT /users/:id after `await user.save()`: the modified paths are written
PutUserSaved(k) ==
    /\ resp = NoResp
    /\ k.pc = "putUser:save"
    /\ Resume(k)
    /\ User' = [User EXCEPT
                  ![k.target].role = IF "role" \in k.modified THEN k.role ELSE @,
                  ![k.target].isActive =
                       IF "isActive" \in k.modified THEN k.isActive ELSE @]
    /\ resp' = Reply(k.route, k.reqUser.id, 200, MsgUserUpdated,
                     [id |-> k.target, role |-> k.role, isActive |-> k.isActive])
    /\ UNCHANGED <<now, pendingSessions, otpStore, nextSid, challenge,
                   tokens, Asset, CheckoutRecord, call>>

\* DELETE /users/:id after `await User.findById`
DeleteUserFound(k) ==
    /\ resp = NoResp
    /\ k.pc = "deleteUser:findById"
    /\ LET user == findById(k.target) IN
       IF user = NoUser
       THEN /\ resp' = Reply(k.route, k.reqUser.id, 404, MsgUserNotFound, [target |-> k.target])
            /\ Resume(k)
       ELSE IF user.id = k.reqUser.id
       THEN /\ resp' = Reply(k.route, k.reqUser.id, 400, MsgCannotDeleteSelf, [target |-> k.target])
            /\ Resume(k)
       ELSE /\ Continue(k, [pc |-> "deleteUser:save", reqUser |-> k.reqUser,
                            route |-> k.route, target |-> k.target,
                            modified |-> IF user.isActive THEN {"isActive"}
                                         ELSE {}])
            /\ resp' = NoResp
    /\ UNCHANGED <<now, User, pendingSessions, otpStore, nextSid, challenge,
                   tokens, Asset, CheckoutRecord, call>>

\* DELETE /users/:id after `await user.save()`: the soft delete is written
DeleteUserSaved(k) ==
    /\ resp = NoResp
    /\ k.pc = "deleteUser:save"
    /\ Resume(k)
    /\ User' = [User EXCEPT
                  ![k.target].isActive =
                       IF "isActive" \in k.modified THEN FALSE ELSE @]
    /\ resp' = Reply(k.route, k.reqUser.id, 200, MsgUserDeactivated,
                     [id |-> k.target])
    /\ UNCHANGED <<now, pendingSessions, otpStore, nextSid, challenge,
                   tokens, Asset, CheckoutRecord, call>>

\* --------------------------------------------------------- checkout.routes
NoSignature == [alg |-> "none", pair |-> "none", digest |-> << >>]

\* a username as a JSON string
usernameString(username) ==
    JStr(CASE username = "u1" -> 11 [] username = "u2" -> 12 [] OTHER -> 13)

\* POST /checkout/request: the payload (assetName and borrowerEmail, two more
\* strings, are left out; no notes are sent, so notes is '')
checkoutData(asset, borrower, body, t) ==
    <<Member("assetId", asset.assetId),
      Member("borrowerUsername", usernameString(borrower.username)),
      Member("requestDate", toISOString(t)),
      Member("dueDate", IF body.dueDate # JUndefined THEN body.dueDate ELSE JNull),
      Member("notes", JStr(0))>>

\* PUT /checkout/:id/approve: the payload that is signed and encrypted
signedData(asset, borrower, issuer, record, t) ==
    <<Member("assetId", IF asset = NoAsset THEN JUndefined ELSE asset.assetId),
      Member("issuedTo", usernameString(borrower.username)),
      Member("issueDate", JDate(t)),
      Member("dueDate", IF record.dueDate # JUndefined THEN record.dueDate
                        ELSE JDate(t + DEFAULT_LOAN_MINUTES)),
      Member("approvedBy", usernameString(issuer.username)),
      Member("notes", record.notes)>>

\* .populate('issuedTo', 'username email'): the path holds the document, and
\* Document.prototype.toString() writes the document out, not its id
populateIssuedTo(record) ==
    LET user == findById(record.issuedTo) IN
    [record EXCEPT !.issuedTo =
        [id |-> user.id, username |-> user.username, email |-> user.email]]
documentToString(doc) ==
    "{ _id: " \o doc.id \o ", username: " \o doc.username \o ", email: "
        \o doc.email \o " }"

\* GET /checkout/:id: `borrower can only view own records`
viewForbidden(reqUser, record) ==
    /\ reqUser.role = "borrower"
    /\ documentToString(populateIssuedTo(record).issuedTo) # reqUser.id

\* POST /checkout/request after `await Asset.findById`
RequestAssetFound(k) ==
    /\ resp = NoResp
    /\ k.pc = "request:findAsset"
    /\ LET asset == IF k.body.assetId \in AssetIds THEN Asset[k.body.assetId]
                    ELSE NoAsset
       IN IF asset = NoAsset
          THEN /\ resp' = Reply(k.route, k.reqUser.id, 404, MsgAssetNotFound, [rid |-> 0])
               /\ Resume(k)
          ELSE IF asset.status # "available"
          THEN /\ resp' = Reply(k.route, k.reqUser.id, 400,
                                MsgAssetNotAvailable, [rid |-> 0])
               /\ Resume(k)
          ELSE /\ Continue(k, [pc |-> "request:findBorrower",
                               reqUser |-> k.reqUser, route |-> k.route,
                               body |-> k.body, asset |-> asset])
               /\ resp' = NoResp
    /\ UNCHANGED <<now, User, pendingSessions, otpStore, nextSid, challenge,
                   tokens, Asset, CheckoutRecord, call>>

\* POST /checkout/request after `await User.findById(req.user.id)`: the
\* payload is encrypted for the borrower and the new record saved
RequestBorrowerFound(k, aesKey, iv) ==
    /\ resp = NoResp
    /\ k.pc = "request:findBorrower"
    /\ LET borrower == findById(k.reqUser.id) IN
       IF borrower = NoUser
       THEN /\ resp' = Reply(k.route, k.reqUser.id, 401, MsgUserNotFound, [rid |-> 0])
            /\ Resume(k)
       ELSE LET encrypted == encryptData(checkoutData(k.asset, borrower, k.body, now),
                                         borrower.publicKey, aesKey, iv)
            IN /\ Continue(k, [pc |-> "request:save", reqUser |-> k.reqUser,
                               route |-> k.route,
                               record |->
                                  [asset |-> k.asset.id,
                                   encryptedData |-> encrypted.encryptedData,
                                   encryptedAESKey |-> encrypted.encryptedAESKey,
                                   iv |-> encrypted.iv,
                                   issuedTo |-> borrower.id,
                                   status |-> "pending",
                                   dueDate |-> IF k.body.dueDate # JUndefined
                                               THEN JDate(k.body.dueDate.v)
                                               ELSE JUndefined,
                                   notes |-> JUndefined,
                                   issuedBy |-> "none",
                                   signedBy |-> "none",
                                   issueDate |-> JUndefined,
                                   returnDate |-> JUndefined,
                                   digitalSignature |-> NoSignature]])
               /\ resp' = NoResp
    /\ UNCHANGED <<now, User, pendingSessions, otpStore, nextSid, challenge,
                   tokens, Asset, CheckoutRecord, call>>

\* POST /checkout/request after `await record.save()`
RequestSaved(k) ==
    /\ resp = NoResp
    /\ k.pc = "request:save"
    /\ Resume(k)
    /\ LET rid == CHOOSE r \in DOMAIN CheckoutRecord :
                     /\ CheckoutRecord[r] = NoCheckout
                     /\ \A q \in DOMAIN CheckoutRecord :
                           q < r => CheckoutRecord[q] # NoCheckout
       IN /\ CheckoutRecord' = [CheckoutRecord EXCEPT ![rid] = k.record]
          /\ resp' = Reply(k.route, k.reqUser.id, 201, MsgRequestSubmitted,
                           [rid |-> rid, status |-> k.record.status])
    /\ UNCHANGED <<now, User, pendingSessions, otpStore, nextSid, challenge,
                   tokens, Asset, call>>

\* PUT /checkout/:id/approve after `await CheckoutRecord.findById`
ApproveRecordFound(k) ==
    /\ resp = NoResp
    /\ k.pc = "approve:findRecord"
    /\ LET record == CheckoutRecord[k.rid] IN
       IF record = NoCheckout
       THEN /\ resp' = Reply(k.route, k.reqUser.id, 404, MsgRecordNotFound, [rid |-> k.rid])
            /\ Resume(k)
       ELSE IF record.status # "pending"
       THEN /\ resp' = Reply(k.route, k.reqUser.id, 400, MsgNotPending, [rid |-> k.rid])
            /\ Resume(k)
       ELSE /\ Continue(k, [pc |-> "approve:findIssuer", reqUser |-> k.reqUser,
                            route |-> k.route, rid |-> k.rid, record |-> record])
            /\ resp' = NoResp
    /\ UNCHANGED <<now, User, pendingSessions, otpStore, nextSid, challenge,
                   tokens, Asset, CheckoutRecord, call>>

\* ... after `await User.findById(req.user.id)`
ApproveIssuerFound(k) ==
    /\ resp = NoResp
    /\ k.pc = "approve:findIssuer"
    /\ LET issuer == findById(k.reqUser.id) IN
       IF issuer = NoUser
       THEN /\ resp' = Reply(k.route, k.reqUser.id, 401, MsgUserNotFound, [rid |-> k.rid])
            /\ Resume(k)
       ELSE /\ Continue(k, [pc |-> "approve:findBorrower", reqUser |-> k.reqUser,
                            route |-> k.route, rid |-> k.rid,
                            record |-> k.record, issuer |-> issuer])
            /\ resp' = NoResp
    /\ UNCHANGED <<now, User, pendingSessions, otpStore, nextSid, challenge,
                   tokens, Asset, CheckoutRecord, call>>

\* ... after `await User.findById(record.issuedTo)`
ApproveBorrowerFound(k) ==
    /\ resp = NoResp
    /\ k.pc = "approve:findBorrower"
    /\ LET borrower == findById(k.record.issuedTo) IN
       IF borrower = NoUser
       THEN /\ resp' = Reply(k.route, k.reqUser.id, 404, MsgBorrowerNotFound, [rid |-> k.rid])
            /\ Resume(k)
       ELSE /\ Continue(k, [pc |-> "approve:findAsset", reqUser |-> k.reqUser,
                            route |-> k.route, rid |-> k.rid,
                            record |-> k.record, issuer |-> k.issuer,
                            borrower |-> borrower])
            /\ resp' = NoResp
    /\ UNCHANGED <<now, User, pendingSessions, otpStore, nextSid, challenge,
                   tokens, Asset, CheckoutRecord, call>>

\* the record as the handler leaves it in memory before `record.save()`
approvedRecord(record, asset, borrower, issuer, t, aesKey, iv) ==
    LET data == signedData(asset, borrower, issuer, record, t)
        encrypted == encryptData(data, borrower.publicKey, aesKey, iv)
    IN [record EXCEPT
          !.status = "approved",
          !.issuedBy = issuer.id,
          !.signedBy = issuer.id,
          !.issueDate = JDate(t),
          !.encryptedData = encrypted.encryptedData,
          !.encryptedAESKey = encrypted.encryptedAESKey,
          !.iv = encrypted.iv,
          !.digitalSignature = createDigitalSignature(data, issuer.privateKey)]

\* document.save() writes the paths whose value was changed after loading
modifiedPaths(loaded, doc) == {f \in DOMAIN loaded : doc[f] # loaded[f]}
saveModified(stored, doc, modified) ==
    [f \in DOMAIN stored |-> IF f \in modified THEN doc[f] ELSE stored[f]]

\* ... after `await Asset.findById(record.asset)`: the asset is marked as
\* checked out and saved (assets are never removed, so one is found)
ApproveAssetFound(k) ==
    /\ resp = NoResp
    /\ k.pc = "approve:findAsset"
    /\ LET asset == Asset[k.record.asset]
           changed == [asset EXCEPT !.status = "checked-out",
                                    !.currentHolder = k.borrower.id]
       IN Continue(k, [pc |-> "approve:saveAsset", reqUser |-> k.reqUser,
                       route |-> k.route, rid |-> k.rid, record |-> k.record,
                       issuer |-> k.issuer, borrower |-> k.borrower,
                       asset |-> changed,
                       modified |-> modifiedPaths(asset, changed)])
    /\ resp' = NoResp
    /\ UNCHANGED <<now, User, pendingSessions, otpStore, nextSid, challenge,
                   tokens, Asset, CheckoutRecord, call>>

\* ... after `await asset.save()`: the payload is signed with the issuer's
\* private key, encrypted for the borrower, and the record saved
ApproveAssetSaved(k, aesKey, iv) ==
    /\ resp = NoResp
    /\ k.pc = "approve:saveAsset"
    /\ Asset' = [Asset EXCEPT ![k.asset.id] = saveModified(@, k.asset, k.modified)]
    /\ Continue(k, [pc |-> "approve:saveRecord", reqUser |-> k.reqUser,
                    route |-> k.route, rid |-> k.rid,
                    issuer |-> k.issuer,
                    record |-> approvedRecord(k.record, k.asset, k.borrower,
                                              k.issuer, now, aesKey, iv)])
    /\ resp' = NoResp
    /\ UNCHANGED <<now, User, pendingSessions, otpStore, nextSid, challenge,
                   tokens, CheckoutRecord, call>>

\* ... after `await record.save()`: the modified paths are written
ApproveRecordSaved(k) ==
    /\ resp = NoResp
    /\ k.pc = "approve:saveRecord"
    /\ Resume(k)
    /\ CheckoutRecord' =
          [CheckoutRecord EXCEPT ![k.rid] =
              [@ EXCEPT !.status = k.record.status,
                        !.issuedBy = k.record.issuedBy,
                        !.signedBy = k.record.signedBy,
                        !.issueDate = k.record.issueDate,
                        !.encryptedData = k.record.encryptedData,
                        !.encryptedAESKey = k.record.encryptedAESKey,
                        !.iv = k.record.iv,
                        !.digitalSignature = k.record.digitalSignature]]
    /\ resp' = Reply(k.route, k.reqUser.id, 200, MsgApproved,
                     [rid |-> k.rid, status |-> k.record.status,
                      signedBy |-> k.issuer.username])
    /\ UNCHANGED <<now, User, pendingSessions, otpStore, nextSid, challenge,
                   tokens, Asset, call>>

\* GET /checkout/:id after `await CheckoutRecord.findById(...).populate(...)`
ViewRecordFound(k) ==
    /\ resp = NoResp
    /\ k.pc = "view:findRecord"
    /\ LET record == CheckoutRecord[k.rid] IN
       IF record = NoCheckout
       THEN /\ resp' = Reply(k.route, k.reqUser.id, 404, MsgRecordNotFound, [rid |-> k.rid])
            /\ Resume(k)
       ELSE IF viewForbidden(k.reqUser, record)
       THEN /\ resp' = Reply(k.route, k.reqUser.id, 403, MsgAccessDenied, [rid |-> k.rid])
            /\ Resume(k)
       ELSE /\ Continue(k, [pc |-> "view:findUser", reqUser |-> k.reqUser,
                            route |-> k.route, rid |-> k.rid, record |-> record])
            /\ resp' = NoResp
    /\ UNCHANGED <<now, User, pendingSessions, otpStore, nextSid, challenge,
                   tokens, Asset, CheckoutRecord, call>>

\* ... after `await User.findById(req.user.id)`: the payload is decrypted
\* with the private key read from the user's document
ViewUserFound(k) ==
    /\ resp = NoResp
    /\ k.pc = "view:findUser"
    /\ LET user == findById(k.reqUser.id) IN
       IF user = NoUser
       THEN /\ resp' = Reply(k.route, k.reqUser.id, 401, MsgUserNotFound, [rid |-> k.rid])
            /\ Resume(k)
       ELSE LET decryptedData == decryptForView(k.record, user) IN
            IF k.record.digitalSignature # NoSignature /\ k.record.signedBy # "none"
            THEN /\ Continue(k, [pc |-> "view:findSigner", reqUser |-> k.reqUser,
                                 route |-> k.route, rid |-> k.rid,
                                 record |-> k.record,
                                 decryptedData |-> decryptedData])
                 /\ resp' = NoResp
            ELSE /\ resp' = Reply(k.route, k.reqUser.id, 200, MsgRecord,
                                  [rid |-> k.rid, record |-> k.record,
                                   decryptedData |-> decryptedData,
                                   hasSignature |-> FALSE, isValid |-> "null"])
                 /\ Resume(k)
    /\ UNCHANGED <<now, User, pendingSessions, otpStore, nextSid, challenge,
                   tokens, Asset, CheckoutRecord, call>>

\* ... after `await User.findById(record.signedBy)`
ViewSignerFound(k) ==
    /\ resp = NoResp
    /\ k.pc = "view:findSigner"
    /\ Resume(k)
    /\ LET signer == findById(k.record.signedBy)
           signatureValid ==
              IF signer = NoUser THEN "null"
              ELSE IF verifyDigitalSignature(k.decryptedData,
                                             k.record.digitalSignature,
                                             signer.publicKey)
              THEN "true" ELSE "false"
       IN resp' = Reply(k.route, k.reqUser.id, 200, MsgRecord,
                        [rid |-> k.rid, record |-> k.record,
                         decryptedData |-> k.decryptedData,
                         hasSignature |-> TRUE, isValid |-> signatureValid])
    /\ UNCHANGED <<now, User, pendingSessions, otpStore, nextSid, challenge,
                   tokens, Asset, CheckoutRecord, call>>

\* GET /checkout: the filter a borrower's token puts on issuedTo, passing
\* every record
listFilter_All(reqUser, record) == TRUE

\* GET /checkout: `if (req.user.role === 'borrower') filter.issuedTo = req.user.id`
listFilter(reqUser, record) ==
    reqUser.role = "borrower" => record.issuedTo = reqUser.id

\* GET /checkout after `await CheckoutRecord.find(filter).populate(...)`
ListFound(k) ==
    /\ resp = NoResp
    /\ k.pc = "list:find"
    /\ Resume(k)
    /\ LET found == {r \in DOMAIN CheckoutRecord :
                        /\ CheckoutRecord[r] # NoCheckout
                        /\ listFilter(k.reqUser, CheckoutRecord[r])}
       IN resp' = Reply(k.route, k.reqUser.id, 200, MsgRecords,
                        [records |-> [r \in found |->
                                         populateIssuedTo(CheckoutRecord[r])]])
    /\ UNCHANGED <<now, User, pendingSessions, otpStore, nextSid, challenge,
                   tokens, Asset, CheckoutRecord, call>>

\* PUT /checkout/:id/reject after `await CheckoutRecord.findById` (no reason
\* is sent, so notes keeps its value)
RejectRecordFound(k) ==
    /\ resp = NoResp
    /\ k.pc = "reject:findRecord"
    /\ LET record == CheckoutRecord[k.rid] IN
       IF record = NoCheckout
       THEN /\ resp' = Reply(k.route, k.reqUser.id, 404, MsgRecordNotFound, [rid |-> k.rid])
            /\ Resume(k)
       ELSE IF record.status # "pending"
       THEN /\ resp' = Reply(k.route, k.reqUser.id, 400, MsgRejectNotPending, [rid |-> k.rid])
            /\ Resume(k)
       ELSE /\ Continue(k, [pc |-> "reject:save", reqUser |-> k.reqUser,
                            route |-> k.route, rid |-> k.rid,
                            record |-> [record EXCEPT !.status = "rejected"]])
            /\ resp' = NoResp
    /\ UNCHANGED <<now, User, pendingSessions, otpStore, nextSid, challenge,
                   tokens, Asset, CheckoutRecord, call>>

\* ... after `await record.save()`: status, the modified path, is written
RejectSaved(k) ==
    /\ resp = NoResp
    /\ k.pc = "reject:save"
    /\ Resume(k)
    /\ CheckoutRecord' =
          [CheckoutRecord EXCEPT ![k.rid] = saveModified(@, k.record, {"status"})]
    /\ resp' = Reply(k.route, k.reqUser.id, 200, MsgRejected,
                     [rid |-> k.rid, status |-> k.record.status])
    /\ UNCHANGED <<now, User, pendingSessions, otpStore, nextSid, challenge,
                   tokens, Asset, call>>

\* PUT /checkout/:id/return: `Only borrower or admin can return`
returnForbidden(reqUser, record) ==
    reqUser.role = "borrower" /\ record.issuedTo # reqUser.id

\* PUT /checkout/:id/return after `await CheckoutRecord.findById`
ReturnRecordFound(k) ==
    /\ resp = NoResp
    /\ k.pc = "return:findRecord"
    /\ LET record == CheckoutRecord[k.rid] IN
       IF record = NoCheckout
       THEN /\ resp' = Reply(k.route, k.reqUser.id, 404, MsgRecordNotFound, [rid |-> k.rid])
            /\ Resume(k)
       ELSE IF returnForbidden(k.reqUser, record)
       THEN /\ resp' = Reply(k.route, k.reqUser.id, 403, MsgReturnOwnOnly, [rid |-> k.rid])
            /\ Resume(k)
       ELSE IF record.status # "approved"
       THEN /\ resp' = Reply(k.route, k.reqUser.id, 400, MsgNotApproved, [rid |-> k.rid])
            /\ Resume(k)
       ELSE /\ Continue(k, [pc |-> "return:findAsset", reqUser |-> k.reqUser,
                            route |-> k.route, rid |-> k.rid, record |-> record])
            /\ resp' = NoResp
    /\ UNCHANGED <<now, User, pendingSessions, otpStore, nextSid, challenge,
                   tokens, Asset, CheckoutRecord, call>>

\* ... after `await Asset.findById(record.asset)`: the asset is marked as
\* available, without holder, and saved
ReturnAssetFound(k) ==
    /\ resp = NoResp
    /\ k.pc = "return:findAsset"
    /\ LET asset == Asset[k.record.asset]
           changed == [asset EXCEPT !.status = "available",
                                    !.currentHolder = "none"]
       IN Continue(k, [pc |-> "return:saveAsset", reqUser |-> k.reqUser,
                       route |-> k.route, rid |-> k.rid, record |-> k.record,
                       asset |-> changed,
                       modified |-> modifiedPaths(asset, changed)])
    /\ resp' = NoResp
    /\ UNCHANGED <<now, User, pendingSessions, otpStore, nextSid, challenge,
                   tokens, Asset, CheckoutRecord, call>>

\* ... after `await asset.save()`: the record is marked as returned and saved
ReturnAssetSaved(k) ==
    /\ resp = NoResp
    /\ k.pc = "return:saveAsset"
    /\ Asset' = [Asset EXCEPT ![k.asset.id] = saveModified(@, k.asset, k.modified)]
    /\ Continue(k, [pc |-> "return:saveRecord", reqUser |-> k.reqUser,
                    route |-> k.route, rid |-> k.rid,
                    record |-> [k.record EXCEPT !.status = "returned",
                                                !.returnDate = JDate(now)]])
    /\ resp' = NoResp
    /\ UNCHANGED <<now, User, pendingSessions, otpStore, nextSid, challenge,
                   tokens, CheckoutRecord, call>>

\* ... after `await record.save()`: status and returnDate are written
ReturnRecordSaved(k) ==
    /\ resp = NoResp
    /\ k.pc = "return:saveRecord"
    /\ Resume(k)
    /\ CheckoutRecord' =
          [CheckoutRecord EXCEPT ![k.rid] =
              saveModified(@, k.record, {"status", "returnDate"})]
    /\ resp' = Reply(k.route, k.reqUser.id, 200, MsgReturned,
                     [rid |-> k.rid, status |-> k.record.status])
    /\ UNCHANGED <<now, User, pendingSessions, otpStore, nextSid, challenge,
                   tokens, Asset, call>>

AccessNext ==
    \/ \E token \in tokens \cup {NoToken} \cup ForgedTokens, request \in Requests :
          Authenticate(token, request)
    \/ \E k \in BagToSet(inflight) : Authenticated(k)
    \/ \E k \in BagToSet(inflight) : GetUserFound(k)
    \/ \E k \in BagToSet(inflight) : PutUserFound(k)
    \/ \E k \in BagToSet(inflight) : PutUserSaved(k)
    \/ \E k \in BagToSet(inflight) : DeleteUserFound(k)
    \/ \E k \in BagToSet(inflight) : DeleteUserSaved(k)
    \/ \E k \in BagToSet(inflight) : RequestAssetFound(k)
    \/ \E k \in BagToSet(inflight), aesKey \in AESKeys, iv \in IVs :
          RequestBorrowerFound(k, aesKey, iv)
    \/ \E k \in BagToSet(inflight) : RequestSaved(k)
    \/ \E k \in BagToSet(inflight) : ApproveRecordFound(k)
    \/ \E k \in BagToSet(inflight) : ApproveIssuerFound(k)
    \/ \E k \in BagToSet(inflight) : ApproveBorrowerFound(k)
    \/ \E k \in BagToSet(inflight) : ApproveAssetFound(k)
    \/ \E k \in BagToSet(inflight), aesKey \in AESKeys, iv \in IVs :
          ApproveAssetSaved(k, aesKey, iv)
    \/ \E k \in BagToSet(inflight) : ApproveRecordSaved(k)
    \/ \E k \in BagToSet(inflight) : ViewRecordFound(k)
    \/ \E k \in BagToSet(inflight) : ViewUserFound(k)
    \/ \E k \in BagToSet(inflight) : ViewSignerFound(k)
    \/ Deliver

AccessSpec == AccessInit /\ [][AccessNext]_vars

\* ------------------------------------------------- the checkout workflow
\* The three principals of AccessUsers hold their tokens and nobody's account
\* is changed; requests are served one after the other, for up to
\* MaxWorkflowRecords records.
WorkflowRecordIds == 1..MaxWorkflowRecords

WorkflowRequests(rids) ==
    {Request(RequestCheckout, "none", 0, [NoBody EXCEPT !.assetId = a]) :
        a \in AssetIds}
        \cup {Request(route, "none", r, NoBody) :
                route \in {ApproveCheckout, RejectCheckout, ReturnCheckout},
                r \in rids}

ReadRequests(rids) ==
    {Request(ViewCheckout, "none", r, NoBody) : r \in rids}
        \cup {Request(ListCheckout, "none", 0, NoBody)}

CheckoutInit ==
    /\ now = 0
    /\ User = AccessUsers
    /\ pendingSessions = [s \in SessionIds |-> NoSession]
    /\ otpStore = [u \in UserIds |-> NoRecord]
    /\ nextSid = 1
    /\ inflight = EmptyBag
    /\ resp = NoResp
    /\ challenge = [u \in UserIds |-> NoChallenge]
    /\ tokens = {generateToken(AccessUsers[u], 0) : u \in UserIds}
    /\ Asset = InitialAssets
    /\ CheckoutRecord = [r \in WorkflowRecordIds |-> NoCheckout]
    /\ call = NoCall

\* the segments of the handlers of checkout.routes that write
WorkflowSegments ==
    \/ \E k \in BagToSet(inflight) : Authenticated(k)
    \/ \E k \in BagToSet(inflight) : RequestAssetFound(k)
    \/ \E k \in BagToSet(inflight), aesKey \in AESKeys, iv \in IVs :
          RequestBorrowerFound(k, aesKey, iv)
    \/ \E k \in BagToSet(inflight) : RequestSaved(k)
    \/ \E k \in BagToSet(inflight) : ApproveRecordFound(k)
    \/ \E k \in BagToSet(inflight) : ApproveIssuerFound(k)
    \/ \E k \in BagToSet(inflight) : ApproveBorrowerFound(k)
    \/ \E k \in BagToSet(inflight) : ApproveAssetFound(k)
    \/ \E k \in BagToSet(inflight), aesKey \in AESKeys, iv \in IVs :
          ApproveAssetSaved(k, aesKey, iv)
    \/ \E k \in BagToSet(inflight) : ApproveRecordSaved(k)
    \/ \E k \in BagToSet(inflight) : RejectRecordFound(k)
    \/ \E k \in BagToSet(inflight) : RejectSaved(k)
    \/ \E k \in BagToSet(inflight) : ReturnRecordFound(k)
    \/ \E k \in BagToSet(inflight) : ReturnAssetFound(k)
    \/ \E k \in BagToSet(inflight) : ReturnAssetSaved(k)
    \/ \E k \in BagToSet(inflight) : ReturnRecordSaved(k)

CheckoutNext ==
    \/ \E token \in tokens,
          request \in WorkflowRequests(WorkflowRecordIds)
                          \cup ReadRequests(WorkflowRecordIds) :
          AuthenticateWithin(MaxInflight, token, request)
    \/ WorkflowSegments
    \/ \E k \in BagToSet(inflight) : ListFound(k)
    \/ \E k \in BagToSet(inflight) : ViewRecordFound(k)
    \/ \E k \in BagToSet(inflight) : ViewUserFound(k)
    \/ \E k \in BagToSet(inflight) : ViewSignerFound(k)
    \/ Deliver

CheckoutSpec == CheckoutInit /\ [][CheckoutNext]_vars

\* ------------------------------------------------------- requests that race
\* As above for one record, with up to MaxRacing handlers suspended at once.
RaceNext ==
    \/ \E token \in tokens, request \in WorkflowRequests(RecordIds) :
          AuthenticateWithin(MaxRacing, token, request)
    \/ WorkflowSegments
    \/ Deliver

RaceSpec == AccessInit /\ [][RaceNext]_vars

\* ------------------------------------- a login while accounts are managed
\* The admin u3 holds a token; u1 logs in while the admin deactivates and
\* reactivates u1's account (the clock stands still).
ManageRequests ==
    {Request(DeleteUser, "u1", 0, NoBody)}
        \cup {Request(PutUser, "u1", 0, [NoBody EXCEPT !.isActive = a]) :
                a \in {"true", "false"}}

ManageInit ==
    /\ now = 0
    /\ User = AccessUsers
    /\ pendingSessions = [s \in SessionIds |-> NoSession]
    /\ otpStore = [u \in UserIds |-> NoRecord]
    /\ nextSid = 1
    /\ inflight = EmptyBag
    /\ resp = NoResp
    /\ challenge = [u \in UserIds |-> NoChallenge]
    /\ tokens = {generateToken(AccessUsers["u3"], 0)}
    /\ Asset = InitialAssets
    /\ CheckoutRecord = [r \in RecordIds |-> NoCheckout]
    /\ call = NoCall

ManageNext ==
    \/ \E p \in Passwords : LoginFindUser("u1@x", p)
    \/ \E k \in BagToSet(inflight) : LoginCreateSession(k, IssuedOTP, TRUE)
    \/ \E s \in SessionIds, c \in OTPValues : VerifyOtp(s, c)
    \/ \E k \in BagToSet(inflight) : VerifyIssueToken(k)
    \/ \E token \in tokens, request \in ManageRequests :
          Authenticate(token, request)
    \/ \E k \in BagToSet(inflight) : Authenticated(k)
    \/ \E k \in BagToSet(inflight) : PutUserFound(k)
    \/ \E k \in BagToSet(inflight) : PutUserSaved(k)
    \/ \E k \in BagToSet(inflight) : DeleteUserFound(k)
    \/ \E k \in BagToSet(inflight) : DeleteUserSaved(k)
    \/ Deliver

ManageSpec == ManageInit /\ [][ManageNext]_vars

\* ------------------------------------------------------------------ claims
\* VerifyOtp(s, c) is a submitCode for principal u
SubmitFor(u, s, c) ==
    /\ pendingSessions[s] # NoSession
    /\ pendingSessions[s].userId = u
    /\ VerifyOtp(s, c)

\* ... through a live session, compared with a stored and unexpired challenge
ComparedFor(u, s, c) ==
    /\ SubmitFor(u, s, c)
    /\ ~sessionExpired(pendingSessions[s], now)
    /\ otpStore[u] # NoRecord
    /\ now <= otpStore[u].expiresAt

\* ... and accepted by verifyOTP
AcceptedFor(u, s, c) ==
    /\ SubmitFor(u, s, c)
    /\ challenge'[u].ok = challenge[u].ok + 1

\* the step changes nothing but the response
OnlyResponds ==
    UNCHANGED <<now, User, pendingSessions, otpStore, nextSid, inflight,
                challenge, tokens, Asset, CheckoutRecord, call>>

\* three codes other than the issued one have been compared with u's challenge
Exhausted(u) ==
    challenge[u] # NoChallenge /\ challenge[u].wrong >= MAX_ATTEMPTS

\* C1: once three mismatched codes have been submitted against one challenge,
\* every later submitCode for that principal, with whatever code, is rejected
\* with a 401, is not accepted by verifyOTP and issues no token.
C1_NoSuccessAfterThreeMismatches ==
    [][\A u \in UserIds, s \in SessionIds, c \in OTPValues :
          (Exhausted(u) /\ SubmitFor(u, s, c))
              => /\ resp'.status = 401
                 /\ challenge'[u].ok = challenge[u].ok
                 /\ tokens' = tokens
                 /\ inflight' = inflight]_vars

\* C1 witness: the issued code itself, submitted after three mismatches and
\* before the expiry of the challenge, has just been refused.
C1_Witness ==
    /\ resp.op = "verify-otp"
    /\ resp.status = 401
    /\ resp.message = MsgTooMany
    /\ Exhausted(resp.uid)
    /\ resp.otp = challenge[resp.uid].otp


\* C2 as claimed: the third consecutive mismatch is itself answered with
\* AttemptsExhausted and leaves no challenge behind.
C2_ThirdMismatchIsExhausted ==
    [][\A u \in UserIds, s \in SessionIds, c \in OTPValues :
          (/\ ComparedFor(u, s, c)
           /\ c # challenge[u].otp
           /\ challenge[u].wrong = MAX_ATTEMPTS - 1)
              => /\ resp'.message = MsgTooMany
                 /\ otpStore'[u] = NoRecord]_vars

\* C2 amended: the third consecutive mismatch is answered with CodeMismatch
\* and 0 attempts remaining and leaves the challenge stored with its counter at
\* 3; the next submitCode compared with that challenge, whatever its code, is
\* the AwaitingCode -> Exhausted transition: it is answered with
\* AttemptsExhausted and the challenge no longer exists when it returns.
C2_ExhaustedOnSubmitAfterThird ==
    [][\A u \in UserIds, s \in SessionIds, c \in OTPValues :
          /\ (/\ ComparedFor(u, s, c)
               /\ c # challenge[u].otp
               /\ challenge[u].wrong = MAX_ATTEMPTS - 1)
                  => /\ resp'.status = 401
                     /\ resp'.message = MsgInvalidOTP
                     /\ resp'.remaining = 0
                     /\ otpStore'[u] =
                            [otpStore[u] EXCEPT !.attempts = MAX_ATTEMPTS]
          /\ (ComparedFor(u, s, c) /\ Exhausted(u))
                  => /\ resp'.status = 401
                     /\ resp'.message = MsgTooMany
                     /\ otpStore'[u] = NoRecord]_vars

\* C2 witness: the third mismatch has been answered "0 attempts remaining"
\* and the challenge is still stored.
C2_Witness ==
    /\ resp.op = "verify-otp"
    /\ resp.message = MsgInvalidOTP
    /\ resp.remaining = 0
    /\ otpStore[resp.uid] # NoRecord
    /\ otpStore[resp.uid].attempts = MAX_ATTEMPTS
    /\ challenge[resp.uid].wrong = MAX_ATTEMPTS

\* C3 as claimed: once three mismatches have been submitted against a
\* challenge, no submitCode is accepted for the principal until a new login,
\* not even against a challenge stored by resendCode.
C3_NoTokenUntilNewLogin ==
    [][\A u \in UserIds, s \in SessionIds, c \in OTPValues :
          (/\ challenge[u] # NoChallenge
           /\ (challenge[u].spent \/ Exhausted(u)))
              => ~AcceptedFor(u, s, c)]_vars

\* C3 amended: a challenge against which three mismatches were submitted is
\* never accepted; a submitCode is accepted only against a challenge stored
\* afterwards, by a new login or by resendCode on a session still stored.
C3_ExhaustedChallengeNeverAccepted ==
    \A u \in UserIds :
        challenge[u] # NoChallenge
            => ~(challenge[u].ok > 0 /\ challenge[u].wrong >= MAX_ATTEMPTS)

\* C3 witness: after an exhausted challenge and no new login, a challenge
\* stored by resendCode has been accepted and the token issued.
C3_Witness ==
    /\ resp.op = "verify-otp"
    /\ resp.status = 200
    /\ challenge[resp.uid].spent
    /\ challenge[resp.uid].ok = 1
    /\ \E t \in tokens : t.sid = resp.sid

\* the login of session id s has been answered: accepted by verifyOTP
\* (the handler is at its await, or the token has been generated)
Consumed(s) ==
    \/ \E t \in tokens : t.sid = s
    \/ \E k \in BagToSet(inflight) : k.pc = "verify:findById" /\ k.sid = s

\* C4: an accepted submitCode deletes both the PendingSession and the
\* principal's OTPChallenge; a later submitCode with the same sessionId, with
\* whatever code, is rejected and changes nothing, and no second token is
\* generated for that sessionId.
C4_SuccessConsumesSessionAndChallenge ==
    [][/\ \A u \in UserIds, s \in SessionIds, c \in OTPValues :
            /\ AcceptedFor(u, s, c)
                  => /\ pendingSessions'[s] = NoSession
                     /\ otpStore'[u] = NoRecord
            /\ (Consumed(s) /\ VerifyOtp(s, c))
                  => /\ resp'.status = 401
                     /\ OnlyResponds
       /\ \A k \in BagToSet(inflight) :
            VerifyIssueToken(k) => ~(\E t \in tokens : t.sid = k.sid)]_vars

\* C4 witness: the token of a login has been issued and a replay of its
\* sessionId with the accepted code has just been refused.
C4_Witness ==
    /\ resp.op = "verify-otp"
    /\ resp.status = 401
    /\ resp.message = MsgBadSession
    /\ \E t \in tokens :
         /\ t.sid = resp.sid
         /\ challenge[t.id].ok = 1
         /\ challenge[t.id].otp = resp.otp

\* C5: whatever the interleaving of the handlers at their awaits, at most one
\* submitCode is accepted against a challenge, and the attempt counter of a
\* stored challenge equals the number of mismatching submissions compared
\* with it (no lost update), up to the budget.
C5_NoDoubleSuccessNoLostUpdate ==
    \A u \in UserIds :
        challenge[u] # NoChallenge
            => /\ challenge[u].ok <= 1
               /\ otpStore[u] # NoRecord
                     => otpStore[u].attempts = challenge[u].wrong

\* C5 witness: while an accepted submitCode is suspended at its await, a
\* second submitCode for the same principal with the same, correct code has
\* been refused.
C5_Witness ==
    /\ resp.op = "verify-otp"
    /\ resp.status = 401
    /\ resp.uid \in UserIds
    /\ resp.otp = challenge[resp.uid].otp
    /\ challenge[resp.uid].ok = 1
    /\ \E k \in BagToSet(inflight) :
         /\ k.pc = "verify:findById"
         /\ k.userId = resp.uid
         /\ k.sid # resp.sid

\* C6 as claimed: from now = T + 10 min on (that instant included) a
\* submitCode on the session is answered SessionExpired and not accepted.
C6_RejectedFromExpiryInstant ==
    [][\A u \in UserIds, s \in SessionIds, c \in OTPValues :
          (SubmitFor(u, s, c) /\ now >= pendingSessions[s].expiresAt)
              => /\ resp'.message = MsgSessionExpired
                 /\ ~AcceptedFor(u, s, c)]_vars

\* C6 amended: a PendingSession is stored with expiry T + 10 min and is
\* accepted by submitCode only while T <= now <= T + 10 min; at every instant
\* now > T + 10 min submitCode is rejected with a 401 even when the code is
\* correct: with SessionExpired while the session is still stored, with
\* "Invalid or expired session" once it has been removed; no token is issued
\* and the challenge is not touched.
C6_RejectedAfterExpiryInstant ==
    [][/\ \A s \in SessionIds :
            (pendingSessions[s] = NoSession /\ pendingSessions'[s] # NoSession)
                => pendingSessions'[s].expiresAt = now + SESSION_EXPIRY_MINUTES
       /\ \A u \in UserIds, s \in SessionIds, c \in OTPValues :
            /\ AcceptedFor(u, s, c) => now <= pendingSessions[s].expiresAt
            /\ (SubmitFor(u, s, c) /\ now > pendingSessions[s].expiresAt)
                  => /\ resp'.status = 401
                     /\ resp'.message = MsgSessionExpired
                     /\ UNCHANGED <<otpStore, inflight, tokens, challenge>>
            /\ (VerifyOtp(s, c) /\ pendingSessions[s] = NoSession)
                  => /\ resp'.status = 401
                     /\ resp'.message = MsgBadSession
                     /\ OnlyResponds]_vars

\* C6 witness: the code of a stored, unexpired challenge has been submitted
\* on a session past its expiry and answered SessionExpired.
C6_Witness ==
    /\ resp.op = "verify-otp"
    /\ resp.message = MsgSessionExpired
    /\ resp.uid \in UserIds
    /\ otpStore[resp.uid] # NoRecord
    /\ otpStore[resp.uid].otp = resp.otp
    /\ now <= otpStore[resp.uid].expiresAt
    /\ otpStore[resp.uid].attempts < MAX_ATTEMPTS

\* C7: a challenge is stored with expiry now + 5 min; a submitCode through a
\* live session after that expiry, whatever its code, is answered CodeExpired,
\* is not accepted, issues no token and deletes the challenge.
C7_ChallengeExpiresAfterFiveMinutes ==
    [][/\ \A k \in BagToSet(inflight), c \in OTPValues, sent \in BOOLEAN :
            ((LoginCreateSession(k, c, sent) \/ ResendInitiateOTP(k, c, sent))
               /\ resp'.status = 200)
                => otpStore'[resp'.uid] =
                      [otp |-> c, expiresAt |-> now + OTP_EXPIRY_MINUTES,
                       attempts |-> 0]
       /\ \A u \in UserIds, s \in SessionIds, c \in OTPValues :
            (/\ SubmitFor(u, s, c)
             /\ ~sessionExpired(pendingSessions[s], now)
             /\ otpStore[u] # NoRecord
             /\ now > otpStore[u].expiresAt)
                => /\ resp'.status = 401
                   /\ resp'.message = MsgOTPExpired
                   /\ otpStore'[u] = NoRecord
                   /\ UNCHANGED <<pendingSessions, inflight, tokens>>]_vars

\* C7 witness: the issued code, submitted after the challenge's expiry on a
\* session that is still live, has been answered CodeExpired.
C7_Witness ==
    /\ resp.op = "verify-otp"
    /\ resp.message = MsgOTPExpired
    /\ resp.otp = challenge[resp.uid].otp
    /\ otpStore[resp.uid] = NoRecord
    /\ pendingSessions[resp.sid] # NoSession
    /\ ~sessionExpired(pendingSessions[resp.sid], now)

\* C8: resendCode replaces the principal's challenge by one with the newly
\* drawn code, expiry now + 5 min and attempt counter 0, touches no other
\* principal's challenge and leaves every PendingSession (the one it was
\* called for and all others) as it was, in both segments of the handler.
C8_ResendReplacesChallengeOnly ==
    [][/\ \A s \in SessionIds :
            ResendFindSession(s)
                => UNCHANGED <<pendingSessions, otpStore, challenge, tokens>>
       /\ \A k \in BagToSet(inflight), c \in OTPValues, sent \in BOOLEAN :
            ResendInitiateOTP(k, c, sent)
                => /\ resp'.status = 200
                   /\ otpStore'[k.userId] =
                         [otp |-> c, expiresAt |-> now + OTP_EXPIRY_MINUTES,
                          attempts |-> 0]
                   /\ \A u \in UserIds \ {k.userId} : otpStore'[u] = otpStore[u]
                   /\ pendingSessions' = pendingSessions]_vars

\* C8 witness: resendCode has answered for a session that is still stored,
\* next to another stored session; the challenge it replaced had counted
\* three mismatches and the new one starts at 0.
C8_Witness ==
    /\ resp.op = "resend-otp"
    /\ resp.status = 200
    /\ pendingSessions[resp.sid] # NoSession
    /\ \E s \in SessionIds \ {resp.sid} : pendingSessions[s] # NoSession
    /\ challenge[resp.uid].spent
    /\ otpStore[resp.uid].attempts = 0

\* C9 as claimed: on a PendingSession whose expiry has passed, swept or not,
\* resendCode answers with a session error and stores no challenge, and
\* submitCode is rejected.
C9_ExpiredSessionRefusedWithoutSweep ==
    [][/\ \A s \in SessionIds :
            (/\ ResendFindSession(s)
             /\ pendingSessions[s] # NoSession
             /\ sessionExpired(pendingSessions[s], now))
                => /\ resp'.status = 401
                   /\ OnlyResponds
       /\ \A k \in BagToSet(inflight), c \in OTPValues, sent \in BOOLEAN :
            (/\ ResendInitiateOTP(k, c, sent)
             /\ pendingSessions[k.sid] # NoSession
             /\ sessionExpired(pendingSessions[k.sid], now))
                => otpStore' = otpStore
       /\ \A u \in UserIds, s \in SessionIds, c \in OTPValues :
            (SubmitFor(u, s, c) /\ sessionExpired(pendingSessions[s], now))
                => /\ resp'.status = 401
                   /\ ~AcceptedFor(u, s, c)]_vars

\* the challenge stored for u, if any, is the one last issued for u
StoredIsLatest ==
    \A u \in UserIds :
        otpStore[u] # NoRecord
            => /\ challenge[u] # NoChallenge
               /\ otpStore[u].otp = challenge[u].otp

\* C10: a principal has at most one stored challenge, the one issued last,
\* and only the code issued last is ever accepted: once a newer challenge
\* with a different code is issued (by resendCode or by another login), the
\* code issued before is no longer accepted.
C10_OnlyLatestCodeAccepted ==
    [][/\ StoredIsLatest
       /\ StoredIsLatest'
       /\ \A u \in UserIds, s \in SessionIds, c \in OTPValues :
            AcceptedFor(u, s, c) => c = challenge[u].otp]_vars

\* C10 witness: the code of the replaced challenge, different from the one
\* issued last, has been submitted and refused as a mismatch.
C10_Witness ==
    /\ resp.op = "verify-otp"
    /\ resp.status = 401
    /\ resp.message = MsgInvalidOTP
    /\ resp.otp = challenge[resp.uid].prev
    /\ resp.otp # challenge[resp.uid].otp
    /\ otpStore[resp.uid] # NoRecord

\* C11: a mismatched submitCode through a live session, compared with a
\* stored, unexpired challenge whose budget is not used up, is answered with
\* CodeMismatch and changes nothing but the attempt counter of that
\* principal's challenge (code and expiry of the challenge, the other
\* principals' challenges, every PendingSession, the suspended handlers and
\* the tokens are as before); the k-th consecutive mismatch (k = 1..3)
\* reports 3 - k attempts remaining.
C11_MismatchOnlyCountsAttempt ==
    [][\A u \in UserIds, s \in SessionIds, c \in OTPValues :
          (/\ ComparedFor(u, s, c)
           /\ c # challenge[u].otp
           /\ challenge[u].wrong < MAX_ATTEMPTS)
              => /\ resp'.status = 401
                 /\ resp'.message = MsgInvalidOTP
                 /\ resp'.remaining = MAX_ATTEMPTS - (challenge[u].wrong + 1)
                 /\ otpStore' = [otpStore EXCEPT ![u].attempts = @ + 1]
                 /\ otpStore'[u].otp = otpStore[u].otp
                 /\ otpStore'[u].expiresAt = otpStore[u].expiresAt
                 /\ UNCHANGED <<now, User, pendingSessions, nextSid, inflight,
                                tokens>>]_vars

\* C11 witness: the second consecutive mismatch has been answered with one
\* attempt remaining; the challenge and the session are still stored.
C11_Witness ==
    /\ resp.op = "verify-otp"
    /\ resp.status = 401
    /\ resp.message = MsgInvalidOTP
    /\ resp.remaining = 1
    /\ challenge[resp.uid].wrong = 2
    /\ otpStore[resp.uid] # NoRecord
    /\ otpStore[resp.uid].attempts = 2
    /\ otpStore[resp.uid].otp # resp.otp
    /\ pendingSessions[resp.sid] # NoSession

\* C19 as claimed: every credential failure of beginLogin (unknown e-mail,
\* wrong secret, deactivated account) is answered with the same status and
\* body, and creates neither a PendingSession nor an OTPChallenge.
C19_CredentialFailuresIdentical ==
    [][/\ \A e \in Emails, p \in Passwords :
            (LoginFindUser(e, p) /\ resp' # NoResp)
                => /\ resp'.status = 401
                   /\ resp'.message = MsgBadCredentials
                   /\ UNCHANGED <<pendingSessions, otpStore>>
       /\ \A k \in BagToSet(inflight), c \in OTPValues, sent \in BOOLEAN :
            (LoginCreateSession(k, c, sent) /\ resp'.status # 200)
                => /\ resp'.status = 401
                   /\ resp'.message = MsgBadCredentials
                   /\ UNCHANGED <<pendingSessions, otpStore>>]_vars

\* C20: when sendOTPEmail fails, beginLogin (with the right secret) and
\* resendCode still answer 200: the session is stored or kept, the challenge
\* is stored with the drawn code, expiry now + 5 min and counter 0; a later
\* submitCode with the stored code, through a live session, before the expiry
\* and within the budget is accepted whether or not the code was delivered,
\* and the handler then issues the token.
C20_DeliveryFailureKeepsChallenge ==
    [][/\ \A k \in BagToSet(inflight), c \in OTPValues :
            /\ (/\ LoginCreateSession(k, c, FALSE)
                 /\ verifyPassword(k.password, k.user.passwordHash))
                    => /\ resp'.status = 200
                       /\ resp'.message = MsgOTPConsole
                       /\ pendingSessions'[resp'.sid] # NoSession
                       /\ otpStore'[k.user.id] =
                             [otp |-> c, expiresAt |-> now + OTP_EXPIRY_MINUTES,
                              attempts |-> 0]
            /\ ResendInitiateOTP(k, c, FALSE)
                    => /\ resp'.status = 200
                       /\ resp'.message = MsgOTPConsole
                       /\ otpStore'[k.userId] =
                             [otp |-> c, expiresAt |-> now + OTP_EXPIRY_MINUTES,
                              attempts |-> 0]
       /\ \A u \in UserIds, s \in SessionIds, c \in OTPValues :
            (/\ ComparedFor(u, s, c)
             /\ ~challenge[u].sent
             /\ c = otpStore[u].otp
             /\ otpStore[u].attempts < MAX_ATTEMPTS)
                => /\ AcceptedFor(u, s, c)
                   /\ \E k \in BagToSet(inflight') :
                         k.pc = "verify:findById" /\ k.sid = s
       /\ \A k \in BagToSet(inflight) :
            VerifyIssueToken(k)
                => /\ resp'.status = 200
                   /\ \E t \in tokens' : t.sid = k.sid /\ t.id = k.userId]_vars

\* C20 witness: the token has been issued for a challenge whose code was
\* never delivered.
C20_Witness ==
    /\ resp.op = "verify-otp"
    /\ resp.status = 200
    /\ ~challenge[resp.uid].sent
    /\ challenge[resp.uid].ok = 1
    /\ \E t \in tokens : t.sid = resp.sid /\ t.id = resp.uid

\* the Roles & Permissions table of the README
DocumentedMatrix(role, resource) ==
    CASE role = "borrower" /\ resource = "asset" -> {"read"}
      [] role = "borrower" /\ resource = "checkout" -> {"create", "read"}
      [] role = "borrower" /\ resource = "user" -> {"read"}
      [] role = "issuer" /\ resource = "asset" -> {"read", "update"}
      [] role = "issuer" /\ resource = "checkout" -> {"read", "update"}
      [] role = "issuer" /\ resource = "user" -> {}
      [] role = "admin" /\ resource \in {"asset", "checkout", "user"} ->
            {"create", "read", "update", "delete"}
      [] OTHER -> {}

WithoutUndefined(P) == SelectSeq(P, LAMBDA m : m.v.t # "undefined")
AsJSON(P) ==
    [i \in 1..Len(WithoutUndefined(P)) |->
        LET m == WithoutUndefined(P)[i] IN
        IF m.v.t = "Date" THEN Member(m.k, toISOString(m.v.v)) ELSE m]

\* the private key given to decryptData is the recipient's
MatchingKey == call.privateKey = generateRSAKeyPair(call.recipient).privateKey

\* C16 as claimed: for every payload P, decryptData of encryptData(P, pub)
\* with the matching private key returns exactly P; with any other key it
\* fails and the view shows 'not the intended recipient'.
C16_RoundTripIsExactlyP ==
    [][ApplyDecryptData
          => /\ MatchingKey => call'.result = Returned(call.data)
             /\ ~MatchingKey
                   => /\ call'.result = Threw
                      /\ call'.shown = NotIntendedRecipient]_vars

\* C16 amended: with the matching private key decryptData returns the JSON
\* image of P, JSON.parse(JSON.stringify(P)): exactly P when P holds only
\* JSON values (strings, null); a Date member comes back as its ISO string
\* and a member holding undefined is absent.  With the private key of
\* another pair, or a string that is no key, decryptData throws, the view
\* catches it and shows 'not the intended recipient' instead of failing.
C16_RoundTripIsJSONImage ==
    [][ApplyDecryptData
          => /\ MatchingKey
                   => /\ call'.result = Returned(AsJSON(call.data))
                      /\ call'.shown = AsJSON(call.data)
                      /\ (\A i \in 1..Len(call.data) :
                             call.data[i].v.t \in {"string", "null"})
                            => call'.result = Returned(call.data)
             /\ ~MatchingKey
                   => /\ call'.result = Threw
                      /\ call'.shown = NotIntendedRecipient]_vars

\* C16 witness: a payload holding a Date has been encrypted and decrypted
\* with the matching key, and has come back with the ISO string in its place.
C16_Witness ==
    /\ call.fn = "decryptData"
    /\ call.returned
    /\ MatchingKey
    /\ call.data = <<Member("assetId", JStr(1)), Member("issueDate", JDate(1))>>
    /\ call.result =
          Returned(<<Member("assetId", JStr(1)),
                     Member("issueDate", toISOString(1))>>)

\* P and Q have the same members but for the value of exactly one
DiffersInOneField(P, Q) ==
    /\ Len(P) = Len(Q)
    /\ \A i \in 1..Len(P) : P[i].k = Q[i].k
    /\ Cardinality({i \in 1..Len(P) : P[i].v # Q[i].v}) = 1

\* the key given to verifyDigitalSignature is the signer's public key
SignerKey == call.publicKey = generateRSAKeyPair(call.signer).publicKey

\* C17 as claimed: verification of the signed payload with the signer's
\* public key is true; it is false when a single field differs from the
\* signed payload, false for another public key, false when it throws.
C17_AnyAlteredFieldFails ==
    [][ApplyVerifyDigitalSignature
          => /\ (call.intact /\ SignerKey /\ call.data = call.signed)
                   => call'.result = TRUE
             /\ DiffersInOneField(call.signed, call.data)
                   => call'.result = FALSE
             /\ ~SignerKey => call'.result = FALSE
             /\ ~call.intact => call'.result = FALSE]_vars

\* C17 amended: verifyDigitalSignature(Q, createDigitalSignature(P, priv),
\* pub) is true for the matching public key exactly when Q and P have the
\* same JSON serialization; so it is true for Q = P and false when a single
\* field is altered to a value that serializes differently (a Date and its
\* ISO string, or a member holding undefined and an absent one, serialize
\* alike and verify alike).  It is false for the public key of another pair,
\* false for a string that is no signature, and false, not an exception,
\* when the key cannot be read.
C17_AlteredSerializationFails ==
    [][ApplyVerifyDigitalSignature
          => /\ (call.intact /\ SignerKey)
                   => call'.result = (AsJSON(call.data) = AsJSON(call.signed))
             /\ (call.intact /\ SignerKey /\ call.data = call.signed)
                   => call'.result = TRUE
             /\ DiffersInOneField(AsJSON(call.signed), AsJSON(call.data))
                   => call'.result = FALSE
             /\ ~SignerKey => call'.result = FALSE
             /\ ~call.intact => call'.result = FALSE]_vars

\* C17 witness: the payload read back from JSON, holding the ISO string
\* where the signed payload held the Date, has verified against the
\* signature with the signer's public key.
C17_Witness ==
    /\ call.fn = "verifyDigitalSignature"
    /\ call.returned
    /\ call.intact
    /\ SignerKey
    /\ call.signed = <<Member("assetId", JStr(1)), Member("issueDate", JDate(1))>>
    /\ call.data = <<Member("assetId", JStr(1)),
                     Member("issueDate", toISOString(1))>>
    /\ call.result = TRUE

\* the step changes no collection and issues no token
StoresUnchanged ==
    UNCHANGED <<now, User, pendingSessions, otpStore, nextSid, challenge,
                tokens, Asset, CheckoutRecord, call>>

\* the request of continuation k is answered without its handler being run
AnsweredWithoutHandler(k) ==
    /\ inflight' = inflight (-) SetToBag({k})
    /\ StoresUnchanged

\* C12: once a principal is deactivated, a request through authenticate that
\* presents a token issued to that principal earlier (correctly signed, not
\* expired) is answered 401 and the protected handler does not run: nothing
\* is stored and no continuation of the request is left.
C12_DeactivatedTokenRejected ==
    [][\A k \in BagToSet(inflight) :
          (/\ Authenticated(k)
           /\ k.reqUser.id \in DOMAIN User
           /\ ~User[k.reqUser.id].isActive)
              => /\ resp'.status = 401
                 /\ AnsweredWithoutHandler(k)]_vars

\* C12 witness: the token of a principal deactivated after it was issued has
\* been refused by authenticate.
C12_Witness ==
    /\ resp.status = 401
    /\ resp.message = MsgTokenUserInvalid
    /\ resp.uid \in DOMAIN User
    /\ ~User[resp.uid].isActive
    /\ \E t \in tokens : t.id = resp.uid

\* C13 as claimed: the approval signs (createDigitalSignature with the
\* issuer's key, at the step that saves the asset) and stores the approved
\* record only for a principal whose role in the User collection is issuer
\* or admin at that moment.
C13_ApprovalNeedsElevatedRoleNow ==
    [][\A k \in BagToSet(inflight) :
          (\/ ApproveRecordSaved(k)
           \/ \E aesKey \in AESKeys, iv \in IVs : ApproveAssetSaved(k, aesKey, iv))
              => User[k.reqUser.id].role \in {"issuer", "admin"}]_vars

\* C15: selfOrAdmin lets a request through exactly when the id in the token
\* equals the target id or the role in the token is admin, whatever the
\* access matrix says for that role; any other authenticated request is
\* answered 403 and a request without a token 401, the handler not being run.
C15_SelfOrAdminByIdentity ==
    [][/\ \A k \in BagToSet(inflight) :
            (/\ Authenticated(k)
             /\ k.route \in {GetUser, PutUser}
             /\ k.reqUser.id \in DOMAIN User
             /\ User[k.reqUser.id].isActive)
                => IF k.reqUser.id = k.target \/ k.reqUser.role = "admin"
                   THEN /\ resp' = NoResp
                        /\ inflight' = (inflight (-) SetToBag({k}))
                              (+) SetToBag({[k EXCEPT !.pc = firstAwait(k.route)]})
                   ELSE /\ resp'.status = 403
                        /\ AnsweredWithoutHandler(k)
       /\ \A request \in Requests :
            (request.route \in {GetUser, PutUser} /\ Authenticate(NoToken, request))
                => /\ resp'.status = 401
                   /\ UNCHANGED inflight
                   /\ StoresUnchanged]_vars

\* C15 witness: an issuer, to whom the matrix grants nothing on the user
\* resource, has been shown their own profile.
C15_Witness ==
    /\ resp.op = GetUser
    /\ resp.status = 200
    /\ resp.uid = resp.data.id
    /\ \E t \in tokens : t.id = resp.uid /\ t.role = "issuer"
    /\ ~hasPermission("issuer", "user", "read")

\* C18 as claimed: whenever an operation uses a principal's private key
\* (decrypting on record view, signing on approval), the key as persisted in
\* the principal's document is not usable as it stands; the requests carry
\* no credential from which it could be recovered.
C18_PrivateKeyNeedsCredential ==
    [][\A k \in BagToSet(inflight) :
          /\ ViewUserFound(k) => User[k.reqUser.id].privateKey.kind # "private"
          /\ (\E aesKey \in AESKeys, iv \in IVs : ApproveAssetSaved(k, aesKey, iv))
                => k.issuer.privateKey.kind # "private"]_vars

\* C23 as claimed: a step that changes the role or the active flag of a
\* principal is the save of a request whose author holds the role admin in
\* the User collection at that time.
C23_OnlyCurrentAdminChangesRoleOrStatus ==
    [][(\E u \in UserIds : \/ User'[u].role # User[u].role
                           \/ User'[u].isActive # User[u].isActive)
          => \E k \in BagToSet(inflight) :
                /\ k.pc \in {"putUser:save", "deleteUser:save"}
                /\ User[k.reqUser.id].role = "admin"]_vars

\* C30 as claimed: a user-management request (DELETE or PUT /users/:id) of
\* an admin aimed at the admin's own id leaves that account active.
C30_AdminStaysActiveAfterOwnRequest ==
    [][\A k \in BagToSet(inflight) :
          (/\ k.route \in {PutUser, DeleteUser}
           /\ k.pc \in {"putUser:save", "deleteUser:save"}
           /\ k.reqUser.role = "admin"
           /\ k.target = k.reqUser.id
           /\ User[k.target].isActive
           /\ (PutUserSaved(k) \/ DeleteUserSaved(k)))
              => User'[k.target].isActive]_vars

\* C28 as claimed: whoever is shown an approved record, whose stored payload
\* and signature are as the approval wrote them, is told that the signature
\* is valid.
C28_SignatureValidForEveryViewer ==
    [][\A k \in BagToSet(inflight) :
          (/\ ViewSignerFound(k)
           /\ k.record.status = "approved"
           /\ k.record = CheckoutRecord[k.rid])
              => resp'.data.isValid = "true"]_vars

\* C21: a login with the correct secret answers 200 with a session id not
\* in use before, stores that session and stores for the principal one
\* challenge with the drawn code, attempt counter 0 and expiry now + 5 min,
\* whatever was stored before (an exhausted or an expired challenge
\* included); the code of a stored, unexpired challenge submitted through a
\* live session of the principal is accepted, consuming session and
\* challenge, and the token is then issued.
C21_FreshLoginAfterExhaustionSucceeds ==
    [][/\ \A k \in BagToSet(inflight), c \in OTPValues, sent \in BOOLEAN :
            (/\ LoginCreateSession(k, c, sent)
             /\ verifyPassword(k.password, k.user.passwordHash))
                => /\ resp'.status = 200
                   /\ resp'.sid = nextSid
                   /\ pendingSessions[nextSid] = NoSession
                   /\ pendingSessions'[nextSid] = newSession(k.user, now)
                   /\ \A s \in SessionIds \ {nextSid} :
                         pendingSessions'[s] = pendingSessions[s]
                   /\ otpStore'[k.user.id] =
                         [otp |-> c, expiresAt |-> now + OTP_EXPIRY_MINUTES,
                          attempts |-> 0]
       /\ \A u \in UserIds, s \in SessionIds, c \in OTPValues :
            (/\ ComparedFor(u, s, c)
             /\ challenge[u] # NoChallenge
             /\ challenge[u].renewed # "no"
             /\ otpStore[u].attempts < MAX_ATTEMPTS
             /\ c = otpStore[u].otp)
                => /\ pendingSessions'[s] = NoSession
                   /\ otpStore'[u] = NoRecord
                   /\ \E j \in BagToSet(inflight') :
                         j.pc = "verify:findById" /\ j.sid = s /\ j.userId = u
       /\ \A k \in BagToSet(inflight) :
            VerifyIssueToken(k)
                => /\ resp'.status = 200
                   /\ generateToken(findById(k.userId), k.sid) \in tokens']_vars

\* C21 witness: the token has been issued for the code of a challenge that a
\* fresh login stored after the previous challenge had been exhausted.
C21_Witness ==
    /\ resp.op = "verify-otp"
    /\ resp.status = 200
    /\ challenge[resp.uid] # NoChallenge
    /\ challenge[resp.uid].renewed = "exhausted"
    /\ challenge[resp.uid].ok = 1
    /\ \E t \in tokens : t.sid = resp.sid /\ t.id = resp.uid

\* the step is one segment of a login operation acting for principal u
ActsFor(u) ==
    \/ \E k \in BagToSet(inflight), c \in OTPValues, sent \in BOOLEAN :
          /\ k.pc = "login:verifyPassword"
          /\ k.user.id = u
          /\ LoginCreateSession(k, c, sent)
    \/ \E s \in SessionIds, c \in OTPValues : SubmitFor(u, s, c)
    \/ \E k \in BagToSet(inflight), c \in OTPValues, sent \in BOOLEAN :
          /\ k.pc = "resend:findById"
          /\ k.userId = u
          /\ ResendInitiateOTP(k, c, sent)

\* C22: the challenge of a principal is created, replaced, counted against
\* or deleted only by a login, submit or resend acting for that principal,
\* or removed by the sweep once its own expiry has passed; a pending session
\* is created only by a login of its principal and removed only by a submit
\* through that very session or by the sweep once its own expiry has passed.
C22_LoginsOfPrincipalsIndependent ==
    [][/\ \A u \in UserIds :
            otpStore'[u] # otpStore[u]
                => \/ ActsFor(u)
                   \/ /\ SweepOTPs
                      /\ otpStore[u] # NoRecord
                      /\ now > otpStore[u].expiresAt
                      /\ otpStore'[u] = NoRecord
       /\ \A s \in SessionIds :
            pendingSessions'[s] # pendingSessions[s]
                => \/ /\ pendingSessions[s] = NoSession
                      /\ ActsFor(pendingSessions'[s].userId)
                   \/ /\ pendingSessions[s] # NoSession
                      /\ pendingSessions'[s] = NoSession
                      /\ \/ \E c \in OTPValues : VerifyOtp(s, c)
                         \/ /\ SweepSessions
                            /\ sessionExpired(pendingSessions[s], now)]_vars

\* C22 witness: a wrong code has just been counted against u1's challenge
\* while u2 holds a session and a challenge nobody has submitted against.
C22_Witness ==
    /\ resp.op = "verify-otp"
    /\ resp.uid = "u1"
    /\ resp.status = 401
    /\ resp.message = MsgInvalidOTP
    /\ otpStore["u2"] # NoRecord
    /\ otpStore["u2"].attempts = 0
    /\ challenge["u2"].wrong = 0
    /\ \E s \in SessionIds :
          pendingSessions[s] # NoSession /\ pendingSessions[s].userId = "u2"

\* C29 as claimed: verify-otp generates a token only for a principal whose
\* account is active at that moment.
C29_NoTokenForInactivePrincipal ==
    [][\A k \in BagToSet(inflight) :
          (VerifyIssueToken(k) /\ resp'.status = 200)
              => findById(k.userId).isActive]_vars

\* C24 as claimed: a return writes the asset back as available and the
\* record as returned only for a caller who is the record's issuedTo
\* principal or has the role admin.
C24_OnlyBorrowerOrAdminReturns ==
    [][\A k \in BagToSet(inflight) :
          (ReturnAssetSaved(k) \/ ReturnRecordSaved(k))
              => \/ k.reqUser.role = "admin"
                 \/ k.record.issuedTo = k.reqUser.id]_vars

\* C25: a token of role borrower is sent, by the list endpoint, only records
\* whose issuedTo is its own principal and, by the detail endpoint, no record
\* (nor payload) whose issuedTo is another principal; a token of role issuer
\* or admin is sent every stored record by the list endpoint and any stored
\* record it asks for by the detail endpoint.
C25_BorrowerSeesOwnRecordsOnly ==
    [][\A k \in BagToSet(inflight) :
          /\ ListFound(k)
                => LET sent == DOMAIN resp'.data.records
                       stored == {r \in DOMAIN CheckoutRecord :
                                     CheckoutRecord[r] # NoCheckout}
                   IN IF k.reqUser.role = "borrower"
                      THEN \A r \in sent :
                              /\ CheckoutRecord[r].issuedTo = k.reqUser.id
                              /\ resp'.data.records[r].issuedTo.id = k.reqUser.id
                      ELSE sent = stored
          /\ (/\ ViewRecordFound(k)
              /\ CheckoutRecord[k.rid] # NoCheckout)
                => IF k.reqUser.role = "borrower"
                   THEN CheckoutRecord[k.rid].issuedTo # k.reqUser.id
                           => /\ resp'.status = 403
                              /\ AnsweredWithoutHandler(k)
                   ELSE /\ resp' = NoResp
                        /\ \E j \in BagToSet(inflight') :
                              j.pc = "view:findUser" /\ j.record = CheckoutRecord[k.rid]
          /\ (ViewUserFound(k) \/ ViewSignerFound(k))
                => /\ k.reqUser.role = "borrower"
                        => k.record.issuedTo = k.reqUser.id
                   /\ resp' # NoResp => /\ resp'.status = 200
                                        /\ resp'.data.record = k.record]_vars

\* C25 witness: the borrower u1 has been sent a list holding their own
\* record and not the stored record of another principal.
C25_Witness ==
    /\ resp.op = ListCheckout
    /\ resp.status = 200
    /\ resp.uid = "u1"
    /\ \E r \in DOMAIN resp.data.records : CheckoutRecord[r].issuedTo = "u1"
    /\ \E r \in DOMAIN CheckoutRecord :
          /\ CheckoutRecord[r] # NoCheckout
          /\ CheckoutRecord[r].issuedTo # "u1"
          /\ r \notin DOMAIN resp.data.records

\* C26 as claimed: the status of a stored record changes only from pending
\* to approved, from pending to rejected and from approved to returned,
\* also while two requests for the record are being served.
C26_StatusFollowsWorkflow ==
    [][\A r \in DOMAIN CheckoutRecord :
          (/\ CheckoutRecord[r] # NoCheckout
           /\ CheckoutRecord'[r].status # CheckoutRecord[r].status)
              => <<CheckoutRecord[r].status, CheckoutRecord'[r].status>>
                    \in {<<"pending", "approved">>, <<"pending", "rejected">>,
                         <<"approved", "returned">>}]_vars

\* C27 as claimed: whenever no request is being served, each asset has at
\* most one approved record, and it is checked-out with holder h exactly
\* when an approved record for it with issuedTo = h is stored.
C27_OneApprovedRecordPerAsset ==
    inflight = EmptyBag
        => \A a \in AssetIds :
              LET approved == {r \in DOMAIN CheckoutRecord :
                                  /\ CheckoutRecord[r] # NoCheckout
                                  /\ CheckoutRecord[r].asset = a
                                  /\ CheckoutRecord[r].status = "approved"}
              IN /\ Cardinality(approved) <= 1
                 /\ \A h \in UserIds :
                       (Asset[a].status = "checked-out" /\ Asset[a].currentHolder = h)
                          <=> \E r \in approved : CheckoutRecord[r].issuedTo = h

====
